---- MODULE Spec2Model ----
(***************************************************************************)
(* Column-mapping transformation pipeline of database-analysis-report:     *)
(* the value-transformation engine (services/transformers.py), the read     *)
(* query generator and configuration loading of the migration page          *)
(* (views/migration_engine.py) and the versioned configuration store        *)
(* (database.py).                                                           *)
(*                                                                           *)
(* A Python str is a sequence of one-character strings.  A Python value is  *)
(* a record tagged by its type:                                             *)
(*   [t |-> "none"]                       None                              *)
(*   [t |-> "str",   s |-> <<...>>]       str                               *)
(*   [t |-> "int",   neg, ds]             int: sign and decimal digits      *)
(*   [t |-> "bool",  b |-> TRUE/FALSE]    bool                              *)
(*   [t |-> "float", k |-> "fin"/"inf"/"nan", neg, ip, fr]                  *)
(*        a float: sign, digits of the integer part and of the fraction     *)
(*        (no trailing zero), which is what repr() prints.                  *)
(* Digits are kept as text: Python numbers are not bounded by a word.       *)
(* A call that raises is modelled by the outcome Raise.                     *)
(***************************************************************************)
EXTENDS Integers, Sequences, FiniteSets, TLC

VARIABLES
  \* transform_value: one call
  tv_pc,          \* "ready" | "done"
  tv_value,       \* the value argument
  tv_transformers,\* the transformers argument
  tv_result,      \* what the call gave its caller: a value, or Raise
  tv_log,         \* the transformer steps the call made, in order
  \* batch executor and read-query generation: one call
  bx_pc,          \* "ready" | "done"
  bx_config,      \* the configuration argument
  bx_df,          \* the batch argument: [columns, rows]
  bx_limit,       \* sample_limit argument of generate_select_query
  bx_out,         \* the batch returned by apply_transformers_to_batch
  bx_rows,        \* the rows returned by apply_mapping_transformers, row by row
  bx_query,       \* the query returned by generate_select_query
  \* migration page (session state, and the widgets the last run rendered)
  migration_step,
  migration_config,
  mig_widgets,
  \* configuration store (SQLite file) and the save calls in flight
  configs,        \* table configs: config_name -> row, or NoRow
  config_history, \* table config_history: sequence of rows in rowid order
  sv_pc,          \* per connection: position of its save_config_to_db call
  sv_args,        \* per connection: [config_name, json_data]
  sv_next,        \* per connection: next_version computed by the call
  sv_tx,          \* per connection: the uncommitted writes of its transaction
  sv_ret,         \* per connection: what the last call returned
  sv_pre,         \* per connection: the committed tables when the call began
  saved,          \* per config name: number of save calls that returned True
  \* reads of the configuration store: one call
  cmp_pc,         \* "ready" | "done"
  cmp_args,       \* the call: [op, config_name, version1, version2, storage_ok]
  cmp_ret,        \* what the call returned
  \* analyze_column_with_sample: one call
  an_pc,          \* "ready" | "done"
  an_args,        \* the call: [source_col_name, target_col_name, sample_values]
  an_result,      \* the dict the call returned
  \* suggest_mapping: one call
  sm_pc,          \* "ready" | "done"
  sm_args,        \* the call: [source_cols, target_cols]
  sm_found,       \* per source column, found_match after the dictionary step
  sm_ret          \* the dict the call returned

varsTV == <<tv_pc, tv_value, tv_transformers, tv_result, tv_log>>
varsBX == <<bx_pc, bx_config, bx_df, bx_limit, bx_out, bx_rows, bx_query>>
varsMig == <<migration_step, migration_config, mig_widgets>>
varsDB == <<configs, config_history, sv_pc, sv_args, sv_next, sv_tx, sv_ret, sv_pre, saved>>
varsCmp == <<cmp_pc, cmp_args, cmp_ret>>
varsAn == <<an_pc, an_args, an_result>>
varsSug == <<sm_pc, sm_args, sm_found, sm_ret>>
vars == <<varsTV, varsBX, varsMig, varsDB, varsCmp, varsAn, varsSug>>

-----------------------------------------------------------------------------
(* Bounds of the model *)

\* longest transformer list passed to transform_value
MaxPipe == 2

\* most mappings of a configuration given to the batch executor
MaxMappings == 2

\* most rows of a batch
MaxRows == 1

\* most rows of table config_history
MaxHistory == 3

-----------------------------------------------------------------------------
(* Python str operations *)

WhiteSpace == {" ", "\t"}

DigitSeq == <<"0", "1", "2", "3", "4", "5", "6", "7", "8", "9">>

IsDigit(c) == \E i \in 1..10 : DigitSeq[i] = c

DigitVal(c) == (CHOOSE i \in 1..10 : DigitSeq[i] = c) - 1

LowerSeq ==
  <<"a", "b", "c", "d", "e", "f", "g", "h", "i", "j", "k", "l", "m",
    "n", "o", "p", "q", "r", "s", "t", "u", "v", "w", "x", "y", "z">>

UpperSeq ==
  <<"A", "B", "C", "D", "E", "F", "G", "H", "I", "J", "K", "L", "M",
    "N", "O", "P", "Q", "R", "S", "T", "U", "V", "W", "X", "Y", "Z">>

UpperChar(c) ==
  IF \E i \in 1..26 : LowerSeq[i] = c
  THEN UpperSeq[CHOOSE i \in 1..26 : LowerSeq[i] = c]
  ELSE c

LowerChar(c) ==
  IF \E i \in 1..26 : UpperSeq[i] = c
  THEN LowerSeq[CHOOSE i \in 1..26 : UpperSeq[i] = c]
  ELSE c

\* str.upper(), str.lower()
Upper(s) == [i \in 1..Len(s) |-> UpperChar(s[i])]

Lower(s) == [i \in 1..Len(s) |-> LowerChar(s[i])]

RECURSIVE LStrip(_)
LStrip(s) ==
  IF s # <<>> /\ Head(s) \in WhiteSpace THEN LStrip(Tail(s)) ELSE s

RECURSIVE RStrip(_)
RStrip(s) ==
  IF s # <<>> /\ s[Len(s)] \in WhiteSpace
  THEN RStrip(SubSeq(s, 1, Len(s) - 1))
  ELSE s

\* mutant: at most one character is removed at each end
StripOnce(s) ==
  LET l == IF s # <<>> /\ Head(s) \in WhiteSpace THEN Tail(s) ELSE s
  IN IF l # <<>> /\ l[Len(l)] \in WhiteSpace THEN SubSeq(l, 1, Len(l) - 1) ELSE l

\* str.strip()
Strip(s) == RStrip(LStrip(s))

\* str.split(sep) for a one-character separator: the list of parts
RECURSIVE SplitAcc(_, _, _, _)
SplitAcc(s, sep, cur, acc) ==
  IF s = <<>> THEN Append(acc, cur)
  ELSE IF Head(s) = sep
       THEN SplitAcc(Tail(s), sep, <<>>, Append(acc, cur))
       ELSE SplitAcc(Tail(s), sep, Append(cur, Head(s)), acc)

Split(s, sep) == SplitAcc(s, sep, <<>>, <<>>)

\* re.sub(r'\D', '', s)
RECURSIVE OnlyDigits(_)
OnlyDigits(s) ==
  IF s = <<>> THEN <<>>
  ELSE IF IsDigit(Head(s))
       THEN <<Head(s)>> \o OnlyDigits(Tail(s))
       ELSE OnlyDigits(Tail(s))

\* re.sub(r'\s+', ' ', s)
RECURSIVE CollapseSpaces(_)
CollapseSpaces(s) ==
  IF s = <<>> THEN <<>>
  ELSE IF Head(s) \in WhiteSpace
       THEN <<" ">> \o CollapseSpaces(LStrip(s))
       ELSE <<Head(s)>> \o CollapseSpaces(Tail(s))

AllDigits(s) == s # <<>> /\ \A i \in 1..Len(s) : IsDigit(s[i])

\* the number a string of decimal digits denotes
RECURSIVE DigitsVal(_)
DigitsVal(s) ==
  IF s = <<>> THEN 0
  ELSE 10 * DigitsVal(SubSeq(s, 1, Len(s) - 1)) + DigitVal(s[Len(s)])

\* the decimal digits of a natural number
RECURSIVE NatStr(_)
NatStr(n) ==
  IF n < 10 THEN <<DigitSeq[n + 1]>>
  ELSE NatStr(n \div 10) \o <<DigitSeq[(n % 10) + 1]>>

\* str(i) of an int
IntStr(i) == IF i < 0 THEN <<"-">> \o NatStr(0 - i) ELSE NatStr(i)

RECURSIVE Zeros(_)
Zeros(k) == IF k <= 0 THEN <<>> ELSE <<"0">> \o Zeros(k - 1)

\* format(i, '0Wd'): zero padding to width w, the sign counted in the width
FormatInt(i, w) ==
  IF i < 0
  THEN <<"-">> \o Zeros(w - 1 - Len(NatStr(0 - i))) \o NatStr(0 - i)
  ELSE Zeros(w - Len(NatStr(i))) \o NatStr(i)

-----------------------------------------------------------------------------
(* Python values and the conversions the transformers use *)

None == [t |-> "none"]

StrV(s) == [t |-> "str", s |-> s]

\* the digits of a number without leading zeros
RECURSIVE Canon(_)
Canon(ds) ==
  IF ds = <<>> THEN <<"0">>
  ELSE IF Head(ds) = "0" /\ Len(ds) > 1 THEN Canon(Tail(ds)) ELSE ds

IntV(neg, ds) == [t |-> "int", neg |-> neg /\ Canon(ds) # <<"0">>, ds |-> Canon(ds)]

BoolV(b) == [t |-> "bool", b |-> b]

FloatV(k, neg, ip, fr) ==
  [t |-> "float", k |-> k, neg |-> neg, ip |-> Canon(ip), fr |-> fr]

NaN == FloatV("nan", FALSE, <<>>, <<>>)

Infinity(neg) == FloatV("inf", neg, <<>>, <<>>)

\* an exception leaving a call
Raise(exc) == [t |-> "raise", exc |-> exc]

IsRaise(r) == r.t = "raise"

\* bool(value), the test of "if value"
Truthy(v) ==
  CASE v.t = "none" -> FALSE
    [] v.t = "str" -> v.s # <<>>
    [] v.t = "int" -> v.ds # <<"0">>
    [] v.t = "bool" -> v.b
    [] v.t = "float" -> ~(v.k = "fin" /\ v.ip = <<"0">> /\ v.fr = <<>>)

RECURSIVE DropTrailingZeros(_)
DropTrailingZeros(s) ==
  IF s # <<>> /\ s[Len(s)] = "0"
  THEN DropTrailingZeros(SubSeq(s, 1, Len(s) - 1))
  ELSE s

\* repr() of a float
FloatStr(v) ==
  CASE v.k = "nan" -> <<"n", "a", "n">>
    [] v.k = "inf" -> (IF v.neg THEN <<"-">> ELSE <<>>) \o <<"i", "n", "f">>
    [] v.k = "fin" ->
         (IF v.neg THEN <<"-">> ELSE <<>>) \o v.ip \o <<".">>
           \o (IF v.fr = <<>> THEN <<"0">> ELSE v.fr)

\* str(value)
PyStr(v) ==
  CASE v.t = "none" -> <<"N", "o", "n", "e">>
    [] v.t = "str" -> v.s
    [] v.t = "int" -> (IF v.neg THEN <<"-">> ELSE <<>>) \o v.ds
    [] v.t = "bool" -> IF v.b THEN <<"T", "r", "u", "e">> ELSE <<"F", "a", "l", "s", "e">>
    [] v.t = "float" -> FloatStr(v)

\* a text without its sign: [neg, body]
Unsigned(s) ==
  IF s # <<>> /\ Head(s) \in {"+", "-"}
  THEN [neg |-> Head(s) = "-", body |-> Tail(s)]
  ELSE [neg |-> FALSE, body |-> s]

\* int(text) of a date part: [ok, n]; ok = FALSE stands for ValueError.
\* (Digit-group underscores are not part of the modelled texts.)
ParseInt(s) ==
  LET u == Unsigned(Strip(s)) IN
  IF AllDigits(u.body)
  THEN [ok |-> TRUE, n |-> IF u.neg THEN 0 - DigitsVal(u.body) ELSE DigitsVal(u.body)]
  ELSE [ok |-> FALSE, n |-> 0]

\* float(text): [ok, f]; ok = FALSE stands for ValueError.
\* Decimal notation, inf/infinity/nan in any case; exponents and digit-group
\* underscores are not part of the modelled texts.
ParseFloat(s) ==
  LET u == Unsigned(Strip(s))
      word == Lower(u.body)
      parts == Split(u.body, ".")
      ipart == parts[1]
      fpart == IF Len(parts) = 2 THEN parts[2] ELSE <<>>
      digitsOrEmpty(p) == \A i \in 1..Len(p) : IsDigit(p[i])
  IN
  IF word \in {<<"i", "n", "f">>, <<"i", "n", "f", "i", "n", "i", "t", "y">>}
  THEN [ok |-> TRUE, f |-> Infinity(u.neg)]
  ELSE IF word = <<"n", "a", "n">>
  THEN [ok |-> TRUE, f |-> NaN]
  ELSE IF /\ Len(parts) \in {1, 2}
          /\ digitsOrEmpty(ipart) /\ digitsOrEmpty(fpart)
          /\ ipart \o fpart # <<>>
  THEN [ok |-> TRUE,
        f |-> FloatV("fin", u.neg, ipart, DropTrailingZeros(fpart))]
  ELSE [ok |-> FALSE, f |-> NaN]

\* float(value): [ok, f]; ok = FALSE stands for ValueError or TypeError
ToFloat(v) ==
  CASE v.t = "none" -> [ok |-> FALSE, f |-> NaN]
    [] v.t = "str" -> ParseFloat(v.s)
    [] v.t = "int" -> [ok |-> TRUE, f |-> FloatV("fin", v.neg, v.ds, <<>>)]
    [] v.t = "bool" ->
         [ok |-> TRUE, f |-> FloatV("fin", FALSE, IF v.b THEN <<"1">> ELSE <<"0">>, <<>>)]
    [] v.t = "float" -> [ok |-> TRUE, f |-> v]

\* int(f) of a float: the truncated value, or the exception int() raises
FloatToInt(f) ==
  CASE f.k = "fin" -> IntV(f.neg, f.ip)
    [] f.k = "nan" -> Raise("ValueError")
    [] f.k = "inf" -> Raise("OverflowError")

\* json.loads(text) -> [ok, v]; ok = FALSE stands for JSONDecodeError.
\* The modelled texts hold no quote, bracket or brace, so a document is a
\* literal or a number.
JsonLoads(s) ==
  LET w == Strip(s)
      u == Unsigned(w)
      parts == Split(u.body, ".")
      intok(p) == AllDigits(p) /\ (Len(p) = 1 \/ Head(p) # "0")
      signok == w = u.body \/ Head(w) = "-"
  IN
  CASE w = <<"n", "u", "l", "l">> -> [ok |-> TRUE, v |-> None]
    [] w = <<"t", "r", "u", "e">> -> [ok |-> TRUE, v |-> BoolV(TRUE)]
    [] w = <<"f", "a", "l", "s", "e">> -> [ok |-> TRUE, v |-> BoolV(FALSE)]
    [] w = <<"N", "a", "N">> -> [ok |-> TRUE, v |-> NaN]
    [] w = <<"I", "n", "f", "i", "n", "i", "t", "y">> ->
         [ok |-> TRUE, v |-> Infinity(FALSE)]
    [] w = <<"-", "I", "n", "f", "i", "n", "i", "t", "y">> ->
         [ok |-> TRUE, v |-> Infinity(TRUE)]
    [] OTHER ->
         IF signok /\ Len(parts) = 1 /\ intok(parts[1])
         THEN [ok |-> TRUE, v |-> IntV(u.neg, parts[1])]
         ELSE IF signok /\ Len(parts) = 2 /\ intok(parts[1]) /\ AllDigits(parts[2])
         THEN [ok |-> TRUE,
               v |-> FloatV("fin", u.neg, parts[1], DropTrailingZeros(parts[2]))]
         ELSE [ok |-> FALSE, v |-> None]

-----------------------------------------------------------------------------
(* services/transformers.py: the transformers *)

\* _buddhist_to_iso
BuddhistToIso(value) ==
  LET value_str == Strip(PyStr(value))
      parts == Split(value_str, "-")
      y == ParseInt(parts[1])
      m == ParseInt(parts[2])
      d == ParseInt(parts[3])
  IN
  IF Len(parts) = 3
  THEN IF y.ok /\ m.ok /\ d.ok
       THEN StrV(FormatInt(y.n - 543, 4) \o <<"-">> \o FormatInt(m.n, 2)
                   \o <<"-">> \o FormatInt(d.n, 2))
       ELSE value           \* int() raised: the bare except returns value
  ELSE StrV(value_str)

\* the strptime directives %m, %d and %Y: the texts each accepts
MonthField(p) ==
  \/ Len(p) = 1 /\ IsDigit(p[1]) /\ p[1] # "0"
  \/ Len(p) = 2 /\ p[1] = "0" /\ IsDigit(p[2]) /\ p[2] # "0"
  \/ Len(p) = 2 /\ p[1] = "1" /\ p[2] \in {"0", "1", "2"}

DayField(p) ==
  \/ Len(p) = 1 /\ IsDigit(p[1]) /\ p[1] # "0"
  \/ Len(p) = 2 /\ p[1] \in {"0", " "} /\ IsDigit(p[2]) /\ p[2] # "0"
  \/ Len(p) = 2 /\ p[1] \in {"1", "2"} /\ IsDigit(p[2])
  \/ Len(p) = 2 /\ p[1] = "3" /\ p[2] \in {"0", "1"}

YearField(p) == Len(p) = 4 /\ AllDigits(p)

IsLeap(y) == (y % 4 = 0 /\ y % 100 # 0) \/ y % 400 = 0

DaysInMonth(y, m) ==
  IF m = 2 THEN (IF IsLeap(y) THEN 29 ELSE 28)
  ELSE IF m \in {4, 6, 9, 11} THEN 30 ELSE 31

\* the layouts _eng_date_to_iso tries, in its order: the separator and the
\* positions of month, day and year among the three parts
DateLayouts ==
  << [sep |-> "/", m |-> 1, d |-> 2, y |-> 3],
     [sep |-> "-", m |-> 1, d |-> 2, y |-> 3],
     [sep |-> "/", m |-> 2, d |-> 1, y |-> 3],
     [sep |-> "-", m |-> 2, d |-> 1, y |-> 3],
     [sep |-> "/", m |-> 2, d |-> 3, y |-> 1] >>

\* datetime.strptime(text, layout): [ok, y, m, d]; ok = FALSE is ValueError
Strptime(text, fmt) ==
  LET parts == Split(text, fmt.sep)
      yv == DigitsVal(parts[fmt.y])
      mv == DigitsVal(parts[fmt.m])
      dv == DigitsVal(LStrip(parts[fmt.d]))
  IN
  IF /\ Len(parts) = 3
     /\ MonthField(parts[fmt.m]) /\ DayField(parts[fmt.d]) /\ YearField(parts[fmt.y])
     /\ yv >= 1 /\ dv <= DaysInMonth(yv, mv)
  THEN [ok |-> TRUE, y |-> yv, m |-> mv, d |-> dv]
  ELSE [ok |-> FALSE, y |-> 0, m |-> 0, d |-> 0]

\* dt.strftime('%Y-%m-%d'); the C library prints %Y without padding
Strftime(dt) ==
  NatStr(dt.y) \o <<"-">> \o FormatInt(dt.m, 2) \o <<"-">> \o FormatInt(dt.d, 2)

\* _eng_date_to_iso
EngDateToIso(value) ==
  LET value_str == Strip(PyStr(value))
      hits == {i \in 1..Len(DateLayouts) : Strptime(value_str, DateLayouts[i]).ok}
      first == CHOOSE i \in hits : \A j \in hits : i <= j
  IN
  IF hits # {}
  THEN StrV(Strftime(Strptime(value_str, DateLayouts[first])))
  ELSE StrV(value_str)

\* _format_phone
FormatPhone(value) ==
  LET digits == OnlyDigits(PyStr(value)) IN
  IF Len(digits) = 10
  THEN StrV(SubSeq(digits, 1, 3) \o <<"-">> \o SubSeq(digits, 4, 6)
              \o <<"-">> \o SubSeq(digits, 7, 10))
  ELSE IF Len(digits) = 11
  THEN StrV(<<"+", digits[1], " ">> \o SubSeq(digits, 2, 4) \o <<"-">>
              \o SubSeq(digits, 5, 7) \o <<"-">> \o SubSeq(digits, 8, 11))
  ELSE StrV(digits)

\* _map_gender
MapGender(value) ==
  LET value_str == Upper(Strip(PyStr(value))) IN
  IF value_str \in {<<"M">>, <<"M", "A", "L", "E">>, <<"1">>} THEN StrV(<<"M">>)
  ELSE IF value_str \in {<<"F">>, <<"F", "E", "M", "A", "L", "E">>, <<"2">>} THEN StrV(<<"F">>)
  ELSE IF value_str \in {<<"O">>, <<"O", "T", "H", "E", "R">>, <<"3">>} THEN StrV(<<"O">>)
  ELSE StrV(value_str)

\* the branch "str(value).strip() if value else value"
StripIfTruthy(value) == IF Truthy(value) THEN StrV(Strip(PyStr(value))) ELSE value

\* the branch TO_NUMBER
ToNumber(value) ==
  IF Truthy(value)
  THEN (IF ToFloat(value).ok THEN ToFloat(value).f ELSE None)
  ELSE None

\* the branch FLOAT_TO_INT: ValueError and TypeError give None, any other
\* exception (OverflowError of an infinity) leaves _apply_transformer
FloatToIntT(value) ==
  IF Truthy(value)
  THEN IF ToFloat(value).ok
       THEN (IF FloatToInt(ToFloat(value).f) = Raise("ValueError")
             THEN None
             ELSE FloatToInt(ToFloat(value).f))
       ELSE None
  ELSE None

\* the branch REPLACE_EMPTY_WITH_NULL
ReplaceEmptyWithNull(value) ==
  IF value = None \/ Strip(PyStr(value)) = <<>> THEN None ELSE value

\* the branch PARSE_JSON
ParseJson(value) ==
  IF value.t = "str" /\ JsonLoads(value.s).ok THEN JsonLoads(value.s).v ELSE value

\* VALIDATOR_OPTIONS of app.py
KnownValidators ==
  { "REQUIRED", "THAI_ID", "HN_FORMAT", "VALID_DATE", "POSITIVE_NUMBER",
    "IS_EMAIL", "IS_PHONE", "NOT_EMPTY", "MIN_LENGTH_13", "NUMERIC_ONLY" }

\* the names _apply_transformer has a branch for
KnownTransformers ==
  { "TRIM", "UPPER_TRIM", "LOWER_TRIM", "BUDDHIST_TO_ISO", "ENG_DATE_TO_ISO",
    "SPLIT_THAI_NAME", "SPLIT_ENG_NAME", "FORMAT_PHONE", "MAP_GENDER",
    "TO_NUMBER", "FLOAT_TO_INT", "CLEAN_SPACES", "REMOVE_PREFIX",
    "REPLACE_EMPTY_WITH_NULL", "LOOKUP_VISIT_ID", "LOOKUP_PATIENT_ID",
    "LOOKUP_DOCTOR_ID", "PARSE_JSON" }

\* mutant: a name without a branch gives None
ApplyTransformerUnknownNull(value, transformer) ==
  CASE transformer = "TRIM" -> StripIfTruthy(value)
    [] transformer = "UPPER_TRIM" ->
         IF Truthy(value) THEN StrV(Upper(Strip(PyStr(value)))) ELSE value
    [] transformer = "LOWER_TRIM" ->
         IF Truthy(value) THEN StrV(Lower(Strip(PyStr(value)))) ELSE value
    [] transformer = "BUDDHIST_TO_ISO" -> BuddhistToIso(value)
    [] transformer = "ENG_DATE_TO_ISO" -> EngDateToIso(value)
    [] transformer = "SPLIT_THAI_NAME" -> StripIfTruthy(value)
    [] transformer = "SPLIT_ENG_NAME" -> StripIfTruthy(value)
    [] transformer = "FORMAT_PHONE" -> FormatPhone(value)
    [] transformer = "MAP_GENDER" -> MapGender(value)
    [] transformer = "TO_NUMBER" -> ToNumber(value)
    [] transformer = "FLOAT_TO_INT" -> FloatToIntT(value)
    [] transformer = "CLEAN_SPACES" ->
         IF Truthy(value) THEN StrV(CollapseSpaces(Strip(PyStr(value)))) ELSE value
    [] transformer = "REMOVE_PREFIX" -> StripIfTruthy(value)
    [] transformer = "REPLACE_EMPTY_WITH_NULL" -> ReplaceEmptyWithNull(value)
    [] transformer = "LOOKUP_VISIT_ID" -> value
    [] transformer = "LOOKUP_PATIENT_ID" -> value
    [] transformer = "LOOKUP_DOCTOR_ID" -> value
    [] transformer = "PARSE_JSON" -> ParseJson(value)
    [] OTHER -> None

\* _apply_transformer: the value returned, or Raise
ApplyTransformer(value, transformer) ==
  CASE transformer = "TRIM" -> StripIfTruthy(value)
    [] transformer = "UPPER_TRIM" ->
         IF Truthy(value) THEN StrV(Upper(Strip(PyStr(value)))) ELSE value
    [] transformer = "LOWER_TRIM" ->
         IF Truthy(value) THEN StrV(Lower(Strip(PyStr(value)))) ELSE value
    [] transformer = "BUDDHIST_TO_ISO" -> BuddhistToIso(value)
    [] transformer = "ENG_DATE_TO_ISO" -> EngDateToIso(value)
    [] transformer = "SPLIT_THAI_NAME" -> StripIfTruthy(value)
    [] transformer = "SPLIT_ENG_NAME" -> StripIfTruthy(value)
    [] transformer = "FORMAT_PHONE" -> FormatPhone(value)
    [] transformer = "MAP_GENDER" -> MapGender(value)
    [] transformer = "TO_NUMBER" -> ToNumber(value)
    [] transformer = "FLOAT_TO_INT" -> FloatToIntT(value)
    [] transformer = "CLEAN_SPACES" ->
         IF Truthy(value) THEN StrV(CollapseSpaces(Strip(PyStr(value)))) ELSE value
    [] transformer = "REMOVE_PREFIX" -> StripIfTruthy(value)
    [] transformer = "REPLACE_EMPTY_WITH_NULL" -> ReplaceEmptyWithNull(value)
    [] transformer = "LOOKUP_VISIT_ID" -> value
    [] transformer = "LOOKUP_PATIENT_ID" -> value
    [] transformer = "LOOKUP_DOCTOR_ID" -> value
    [] transformer = "PARSE_JSON" -> ParseJson(value)
    [] OTHER -> value

\* mutant: the test forgets the whitespace-only str
IsBlankNoneOnly(value) == value = None

\* the test that opens transform_value: None, or a str that strips to ''
IsBlank(value) == value = None \/ (value.t = "str" /\ Strip(value.s) = <<>>)

\* mutant: no try/except around the call
LoopStepNoCatch(value, transformer) == ApplyTransformer(value, transformer)

\* one pass of the loop of transform_value: the try/except around the call
LoopStep(value, transformer) ==
  IF IsRaise(ApplyTransformer(value, transformer))
  THEN value
  ELSE ApplyTransformer(value, transformer)

\* mutant: the loop walks the list from its end
RECURSIVE LoopReversed(_, _, _, _)
LoopReversed(value, transformers, i, log) ==
  LET t == transformers[Len(transformers) + 1 - i] IN
  IF i > Len(transformers) \/ IsRaise(value) THEN [value |-> value, log |-> log]
  ELSE LoopReversed(LoopStep(value, t), transformers, i + 1,
                    Append(log, [transformer |-> t,
                                 before |-> value,
                                 raised |-> IsRaise(ApplyTransformer(value, t)),
                                 after |-> LoopStep(value, t)]))

\* the loop of transform_value from position i: [value, log], the log holding
\* one entry per pass; an exception that leaves a pass leaves the call
RECURSIVE Loop(_, _, _, _)
Loop(value, transformers, i, log) ==
  IF i > Len(transformers) \/ IsRaise(value) THEN [value |-> value, log |-> log]
  ELSE Loop(LoopStep(value, transformers[i]), transformers, i + 1,
            Append(log, [transformer |-> transformers[i],
                         before |-> value,
                         raised |-> IsRaise(ApplyTransformer(value, transformers[i])),
                         after |-> LoopStep(value, transformers[i])]))

\* transform_value: [value, log]
TransformValue(value, transformers) ==
  IF IsBlank(value)
  THEN [value |-> value, log |-> <<>>]
  ELSE Loop(value, transformers, 1, <<>>)

-----------------------------------------------------------------------------
(* Inputs of transform_value *)

\* texts: blank, padded, dates of both calendars, phone numbers, genders,
\* numbers and JSON literals
Texts ==
  { <<>>, <<" ">>, <<" ", "\t">>,
    <<" ", "a", "b", " ">>, <<"a", " ", " ", "b">>, <<"A", "b">>, <<"a", "b", "c">>,
    <<"2", "5", "6", "6", "-", "0", "5", "-", "1", "5">>,
    <<" ", "2", "5", "6", "6", "-", "5", "-", "1", " ">>,
    <<"a", "-", "b", "-", "c">>, <<" ", "a", "-", "b", "-", "c">>,
    <<"1", "2", "-", "1", "-", "1">>,
    <<"0", "1", "/", "0", "2", "/", "2", "0", "2", "0">>,
    <<"1", "3", "/", "0", "2", "/", "2", "0", "2", "0">>,
    <<"2", "/", "3", "0", "/", "2", "0", "2", "0">>,
    <<"2", "0", "2", "0", "/", "0", "1", "/", "0", "2">>,
    <<"1", "-", "2", "-", "2", "0", "2", "0">>,
    <<"0", "8", "1", "2", "3", "4", "5", "6", "7", "8">>,
    <<"6", "6", "8", "1", "2", "3", "4", "5", "6", "7", "8">>,
    <<"m", "a", "l", "e">>, <<"f">>, <<"2">>, <<"0">>,
    <<"1", "2", "3", ".", "0">>, <<"1", "2", ".", "5">>, <<"-", ".", "5">>,
    <<"i", "n", "f">>, <<"n", "a", "n">>,
    <<"n", "u", "l", "l">>, <<" ", " ", "7", " ">> }

\* values of a column: None, str, int and float cells
Values ==
  {None} \cup {StrV(s) : s \in Texts}
    \cup {IntV(FALSE, <<"0">>), IntV(FALSE, <<"5">>), NaN, Infinity(FALSE),
          FloatV("fin", FALSE, <<"0">>, <<>>), FloatV("fin", FALSE, <<"1", "2">>, <<"5">>)}

\* names whose branch repeats the branch of another name, word for word:
\* the branch of TRIM and the branch of LOOKUP_VISIT_ID
RepeatedBranches ==
  { "SPLIT_ENG_NAME", "REMOVE_PREFIX", "LOOKUP_PATIENT_ID", "LOOKUP_DOCTOR_ID" }

\* transformer names of a mapping: one name per distinct branch and one unknown
TransformerNames == (KnownTransformers \ RepeatedBranches) \cup {"NO_SUCH_TRANSFORMER"}

Pipelines == UNION {[1..n -> TransformerNames] : n \in 0..MaxPipe}

-----------------------------------------------------------------------------
(* transform_value: one call *)

InitTV ==
  /\ tv_pc = "ready"
  /\ tv_value \in Values
  /\ tv_transformers \in Pipelines
  /\ tv_result = None
  /\ tv_log = <<>>

IdleTV ==
  /\ tv_pc = "idle"
  /\ tv_value = None
  /\ tv_transformers = <<>>
  /\ tv_result = None
  /\ tv_log = <<>>

\* the call transform_value(tv_value, tv_transformers)
TransformValueCall ==
  /\ tv_pc = "ready"
  /\ tv_pc' = "done"
  /\ tv_result' = TransformValue(tv_value, tv_transformers).value
  /\ tv_log' = TransformValue(tv_value, tv_transformers).log
  /\ UNCHANGED <<tv_value, tv_transformers>>

-----------------------------------------------------------------------------
(* Mapping configurations, batches and the read query *)

\* a key a JSON object does not hold
Absent == [t |-> "absent"]

\* mapping.get('ignore', False), taken as a condition
IgnoreFlag(mapping) == mapping.ignore # Absent /\ Truthy(mapping.ignore)

\* config.get('mappings', [])
MappingsOf(config) == IF config.has_mappings THEN config.mappings ELSE <<>>

\* the dict transformer_map that apply_transformers_to_batch builds: keyed by
\* source column, a later mapping of the same source replacing an earlier one
TransformerMap(config) ==
  LET ms == MappingsOf(config)
      used == {i \in 1..Len(ms) : ms[i].transformers # <<>>}
      last(c) == CHOOSE i \in used : ms[i].source = c /\ \A j \in used : ms[j].source = c => j <= i
  IN [c \in {ms[i].source : i \in used} |->
        [target |-> ms[last(c)].target, transformers |-> ms[last(c)].transformers]]

\* apply_transformers_to_batch: df is [columns, rows], a row a function of
\* the columns; the batch returned
ApplyTransformersToBatch(df, config) ==
  IF df.rows = <<>> \/ df.columns = <<>> \/ ~config.has_mappings
  THEN df
  ELSE LET tmap == TransformerMap(config) IN
       [columns |-> df.columns,
        rows |-> [r \in 1..Len(df.rows) |->
                   [c \in DOMAIN df.rows[r] |->
                      IF c \in DOMAIN tmap
                      THEN TransformValue(df.rows[r][c], tmap[c].transformers).value
                      ELSE df.rows[r][c]]]]

\* apply_mapping_transformers: the loop over row.items(), keys in the order
\* keys; a later key writing the same output key replaces the earlier value
RECURSIVE MappingLoop(_, _, _, _)
MappingLoop(row, mapping, keys, transformed_row) ==
  IF keys = <<>> THEN transformed_row
  ELSE LET key == Head(keys)
           entry == IF key \in DOMAIN mapping
                    THEN (mapping[key].target :>
                            TransformValue(row[key], mapping[key].transformers).value)
                    ELSE (key :> row[key])
       IN MappingLoop(row, mapping, Tail(keys), entry @@ transformed_row)

ApplyMappingTransformers(row, mapping, keys) == MappingLoop(row, mapping, keys, <<>>)

\* generate_select_query: the query as [star, cols, limit]; star stands for
\* "SELECT *", limit 0 for no LIMIT clause
SelectStar == [star |-> TRUE, cols |-> <<>>, limit |-> 0]

RECURSIVE SelectedCols(_)
SelectedCols(ms) ==
  IF ms = <<>> THEN <<>>
  ELSE (IF IgnoreFlag(Head(ms)) THEN <<>> ELSE <<Head(ms).source>>)
         \o SelectedCols(Tail(ms))

GenerateSelectQuery(config_data, sample_limit) ==
  IF ~config_data.has_mappings THEN SelectStar
  ELSE IF SelectedCols(config_data.mappings) = <<>> THEN SelectStar
  ELSE [star |-> FALSE,
        cols |-> SelectedCols(config_data.mappings),
        limit |-> IF sample_limit # 0 THEN sample_limit ELSE 0]

-----------------------------------------------------------------------------
(* Inputs of the batch executor and of generate_select_query *)

Columns == {"a", "b"}

TargetColumns == {"x", "b"}

Cells == {None, StrV(<<" ", "a", "b", " ">>), StrV(<<"1", "2", "3", ".", "0">>)}

BatchPipelines == {<<>>, <<"TRIM">>, <<"FLOAT_TO_INT">>}

IgnoreValues == {Absent, BoolV(TRUE), BoolV(FALSE)}

Mappings ==
  [source : Columns, target : TargetColumns, transformers : BatchPipelines,
   validators : {<<>>}, ignore : IgnoreValues]

\* a configuration without the key 'mappings' (or no configuration at all)
NoMappings == [has_mappings |-> FALSE, mappings |-> <<>>]

BatchConfigs ==
  {NoMappings} \cup
  {[has_mappings |-> TRUE, mappings |-> ms] :
     ms \in UNION {[1..n -> Mappings] : n \in 0..MaxMappings}}

ColumnLists == {<<"a">>, <<"a", "b">>}

\* the set of the entries of a list
Range(f) == {f[i] : i \in DOMAIN f}

Batches ==
  UNION {{[columns |-> cols, rows |-> rs] :
            rs \in UNION {[1..n -> [Range(cols) -> Cells]] : n \in 0..MaxRows}} :
         cols \in ColumnLists}

\* sample_limit: 0 stands for None, 20 is the sample size of the test run
SampleLimits == {0, 20}

-----------------------------------------------------------------------------
(* Batch executor and read query: one call *)

NotRun == [t |-> "notrun"]

InitBX ==
  /\ bx_pc = "ready"
  /\ bx_config \in BatchConfigs
  /\ bx_df \in Batches
  /\ bx_limit \in SampleLimits
  /\ bx_out = NotRun
  /\ bx_rows = NotRun
  /\ bx_query = NotRun

IdleBX ==
  /\ bx_pc = "idle"
  /\ bx_config = NoMappings
  /\ bx_df = [columns |-> <<>>, rows |-> <<>>]
  /\ bx_limit = 0
  /\ bx_out = NotRun
  /\ bx_rows = NotRun
  /\ bx_query = NotRun

\* the call apply_transformers_to_batch(bx_df, bx_config)
ApplyTransformersToBatchCall ==
  /\ bx_pc = "ready"
  /\ bx_pc' = "batch_done"
  /\ bx_out' = ApplyTransformersToBatch(bx_df, bx_config)
  /\ UNCHANGED <<bx_config, bx_df, bx_limit, bx_rows, bx_query>>

\* apply_mapping_transformers(row, mapping) on every row of the batch, mapping
\* being the dict of the configuration keyed by source column
ApplyMappingTransformersCall ==
  /\ bx_pc = "ready"
  /\ bx_pc' = "rows_done"
  /\ bx_rows' = [r \in 1..Len(bx_df.rows) |->
                   ApplyMappingTransformers(bx_df.rows[r], TransformerMap(bx_config),
                                            bx_df.columns)]
  /\ UNCHANGED <<bx_config, bx_df, bx_limit, bx_out, bx_query>>

\* the call generate_select_query(bx_config, source_table, bx_limit)
GenerateSelectQueryCall ==
  /\ bx_pc = "ready"
  /\ bx_pc' = "query_done"
  /\ bx_query' = GenerateSelectQuery(bx_config, bx_limit)
  /\ UNCHANGED <<bx_config, bx_df, bx_limit, bx_out, bx_rows>>

-----------------------------------------------------------------------------
(* database.py: tables configs and config_history, save_config_to_db *)

ConfigNames == {"n1", "n2"}

NoRow == [t |-> "norow"]

\* a json_data argument json.dumps cannot serialise
Unserializable == [t |-> "unserializable"]

\* json.dumps(json_data): the text, or the exception
Dumps(json_data) ==
  IF json_data = Unserializable THEN Raise("TypeError")
  ELSE [t |-> "text", doc |-> json_data]

\* json.loads(json_str) of a stored text
Loads(json_str) == json_str.doc

\* get_connection() opens the file without "PRAGMA foreign_keys = ON", so
\* SQLite does not enforce the FOREIGN KEY ... ON DELETE CASCADE of
\* config_history
ForeignKeys == FALSE

\* SELECT MAX(version) FROM config_history WHERE config_name = ?: 0 stands
\* for the NULL of an empty selection
MaxVersion(history, config_name) ==
  LET vs == {history[i].version : i \in {j \in 1..Len(history) : history[j].config_name = config_name}}
  IN IF vs = {} THEN 0 ELSE CHOOSE v \in vs : \A w \in vs : w <= v

\* mutant: the version is not incremented
NextVersionNoIncrement(max_version) == IF max_version # 0 THEN max_version ELSE 1

\* next_version = (max_version + 1) if max_version else 1
NextVersion(max_version) == IF max_version # 0 THEN max_version + 1 ELSE 1

\* the rows of a table that a predicate keeps, in rowid order
RECURSIVE RowsNotOf(_, _)
RowsNotOf(history, names) ==
  IF history = <<>> THEN <<>>
  ELSE (IF Head(history).config_name \in names THEN <<>> ELSE <<Head(history)>>)
         \o RowsNotOf(Tail(history), names)

\* get_config_content
GetConfigContent(config_name) ==
  IF configs[config_name] # NoRow THEN Loads(configs[config_name].json_data) ELSE None

\* get_config_version: fetchone() gives the first matching row
GetConfigVersion(config_name, version) ==
  LET hits == {i \in 1..Len(config_history) :
                 /\ config_history[i].config_name = config_name
                 /\ config_history[i].version = version}
  IN IF hits # {}
     THEN Loads(config_history[CHOOSE i \in hits : \A j \in hits : i <= j].json_data)
     ELSE None

Conns == {"c1", "c2"}

NoTx == [config_row |-> NoRow, history_rows |-> <<>>, cascade |-> {}]

NoArgs == [config_name |-> "", json_data |-> None]

NoSnapshot == [configs |-> <<>>, config_history |-> <<>>]

NoReturn == [t |-> "noreturn"]

\* the documents saved: two configurations and one json.dumps rejects
Doc(id) == [t |-> "doc", id |-> id]

SavedDocs == {Doc("doc1"), Doc("doc2"), Unserializable}

IdleSaves ==
  /\ sv_pc = [c \in Conns |-> "idle"]
  /\ sv_args = [c \in Conns |-> NoArgs]
  /\ sv_next = [c \in Conns |-> 0]
  /\ sv_tx = [c \in Conns |-> NoTx]
  /\ sv_ret = [c \in Conns |-> NoReturn]
  /\ sv_pre = [c \in Conns |-> NoSnapshot]
  /\ saved = [n \in ConfigNames |-> 0]

\* init_db: both tables exist and are empty
InitDB ==
  /\ configs = [n \in ConfigNames |-> NoRow]
  /\ config_history = <<>>
  /\ IdleSaves

IdleDB == InitDB

\* what a call that ends leaves behind in its connection
Return(c, ret) ==
  /\ sv_pc' = [sv_pc EXCEPT ![c] = "idle"]
  /\ sv_ret' = [sv_ret EXCEPT ![c] = ret]
  /\ sv_args' = [sv_args EXCEPT ![c] = NoArgs]
  /\ sv_next' = [sv_next EXCEPT ![c] = 0]
  /\ sv_tx' = [sv_tx EXCEPT ![c] = NoTx]
  /\ sv_pre' = [sv_pre EXCEPT ![c] = NoSnapshot]

\* save_config_to_db(config_name, table_name, json_data) is called; calls do
\* not overlap.  ensure_config_history_table() finds the table init_db made,
\* with its version column, and changes nothing.
SaveBegin(c, config_name, json_data) ==
  /\ \A d \in Conns : sv_pc[d] = "idle"
  /\ Len(config_history) < MaxHistory
  /\ sv_pc' = [sv_pc EXCEPT ![c] = "connect"]
  /\ sv_args' = [sv_args EXCEPT ![c] = [config_name |-> config_name, json_data |-> json_data]]
  /\ sv_ret' = [sv_ret EXCEPT ![c] = NoReturn]
  /\ sv_pre' = [sv_pre EXCEPT ![c] = [configs |-> configs, config_history |-> config_history]]
  /\ UNCHANGED <<configs, config_history, sv_next, sv_tx, saved>>

\* conn = get_connection(); c = conn.cursor()
SaveConnect(c) ==
  /\ sv_pc[c] = "connect"
  /\ sv_pc' = [sv_pc EXCEPT ![c] = "dumps"]
  /\ UNCHANGED <<configs, config_history, sv_args, sv_next, sv_tx, sv_ret, sv_pre, saved>>

\* sqlite3.connect raises (the file cannot be opened): get_connection() is
\* called before the try, so the exception leaves save_config_to_db
SaveConnectRaise(c) ==
  /\ sv_pc[c] = "connect"
  /\ Return(c, [t |-> "raise", exc |-> "OperationalError"])
  /\ UNCHANGED <<configs, config_history, saved>>

\* json_str = json.dumps(json_data); an exception goes to the except branch
SaveDumps(c) ==
  /\ sv_pc[c] = "dumps"
  /\ IF IsRaise(Dumps(sv_args[c].json_data))
     THEN Return(c, [t |-> "return", ok |-> FALSE, msg |-> "dumps"])
     ELSE /\ sv_pc' = [sv_pc EXCEPT ![c] = "select"]
          /\ UNCHANGED <<sv_args, sv_next, sv_tx, sv_ret, sv_pre>>
  /\ UNCHANGED <<configs, config_history, saved>>

\* SELECT MAX(version) ...; next_version
SaveSelectMax(c) ==
  /\ sv_pc[c] = "select"
  /\ sv_next' = [sv_next EXCEPT ![c] =
                   NextVersion(MaxVersion(config_history, sv_args[c].config_name))]
  /\ sv_pc' = [sv_pc EXCEPT ![c] = "replace"]
  /\ UNCHANGED <<configs, config_history, sv_args, sv_tx, sv_ret, sv_pre, saved>>

\* mutant: INSERT OR IGNORE, which keeps the row a config_name already has
SaveReplaceIgnore(c) ==
  /\ sv_pc[c] = "replace"
  /\ sv_tx' = [sv_tx EXCEPT ![c] =
                 [config_row |-> IF configs[sv_args[c].config_name] # NoRow
                                 THEN configs[sv_args[c].config_name]
                                 ELSE [table_name |-> "t",
                                       json_data |-> Dumps(sv_args[c].json_data)],
                  history_rows |-> <<>>,
                  cascade |-> {}]]
  /\ sv_pc' = [sv_pc EXCEPT ![c] = "insert"]
  /\ UNCHANGED <<configs, config_history, sv_args, sv_next, sv_ret, sv_pre, saved>>

\* INSERT OR REPLACE INTO configs: opens the transaction; REPLACE deletes the
\* row of the same config_name, which cascades when foreign keys are enforced
SaveReplace(c) ==
  /\ sv_pc[c] = "replace"
  /\ sv_tx' = [sv_tx EXCEPT ![c] =
                 [config_row |-> [table_name |-> "t",
                                  json_data |-> Dumps(sv_args[c].json_data)],
                  history_rows |-> <<>>,
                  cascade |-> IF ForeignKeys /\ configs[sv_args[c].config_name] # NoRow
                              THEN {sv_args[c].config_name} ELSE {}]]
  /\ sv_pc' = [sv_pc EXCEPT ![c] = "insert"]
  /\ UNCHANGED <<configs, config_history, sv_args, sv_next, sv_ret, sv_pre, saved>>

\* INSERT INTO config_history
SaveInsertHistory(c) ==
  /\ sv_pc[c] = "insert"
  /\ sv_tx' = [sv_tx EXCEPT ![c].history_rows =
                 Append(@, [config_name |-> sv_args[c].config_name,
                            version |-> sv_next[c],
                            json_data |-> Dumps(sv_args[c].json_data)])]
  /\ sv_pc' = [sv_pc EXCEPT ![c] = "commit"]
  /\ UNCHANGED <<configs, config_history, sv_args, sv_next, sv_ret, sv_pre, saved>>

\* conn.commit() and return True: the writes of the transaction reach the file
SaveCommit(c) ==
  /\ sv_pc[c] = "commit"
  /\ configs' = [configs EXCEPT ![sv_args[c].config_name] = sv_tx[c].config_row]
  /\ config_history' = RowsNotOf(config_history, sv_tx[c].cascade) \o sv_tx[c].history_rows
  /\ saved' = [saved EXCEPT ![sv_args[c].config_name] = @ + 1]
  /\ Return(c, [t |-> "return", ok |-> TRUE, msg |-> "Config saved!"])

\* mutant: every statement is committed as it runs, so a call that fails
\* leaves the writes it made
SaveFailKeepsWrites(c) ==
  /\ sv_pc[c] \in {"select", "replace", "insert", "commit"}
  /\ configs' = IF sv_tx[c].config_row # NoRow
                THEN [configs EXCEPT ![sv_args[c].config_name] = sv_tx[c].config_row]
                ELSE configs
  /\ config_history' = config_history \o sv_tx[c].history_rows
  /\ Return(c, [t |-> "return", ok |-> FALSE, msg |-> sv_pc[c]])
  /\ UNCHANGED saved

\* a statement or the commit raises (I/O error, locked or full file): the
\* except branch returns False with the message of the exception, here the
\* statement that raised, and conn.close() drops the open transaction
SaveFail(c) ==
  /\ sv_pc[c] \in {"select", "replace", "insert", "commit"}
  /\ Return(c, [t |-> "return", ok |-> FALSE, msg |-> sv_pc[c]])
  /\ UNCHANGED <<configs, config_history, saved>>

\* save_config_to_db is called on a connection while calls on the other
\* connections may be running
SaveCall(c, config_name, json_data) ==
  /\ sv_pc[c] = "idle"
  /\ Len(config_history) + Cardinality({d \in Conns : sv_pc[d] # "idle"}) < MaxHistory
  /\ sv_pc' = [sv_pc EXCEPT ![c] = "connect"]
  /\ sv_args' = [sv_args EXCEPT ![c] = [config_name |-> config_name, json_data |-> json_data]]
  /\ sv_ret' = [sv_ret EXCEPT ![c] = NoReturn]
  /\ sv_pre' = [sv_pre EXCEPT ![c] = [configs |-> configs, config_history |-> config_history]]
  /\ UNCHANGED <<configs, config_history, sv_next, sv_tx, saved>>

\* INSERT OR REPLACE with other connections open: the statement begins the
\* write transaction and takes the write lock of the file, which it gets
\* when no other connection holds an open write transaction (otherwise it
\* waits, or raises 'database is locked': SaveFail)
SaveReplaceLocked(c) ==
  /\ \A d \in Conns \ {c} : sv_tx[d] = NoTx
  /\ SaveReplace(c)

\* get_config_history: the versions of a name, highest first
RECURSIVE VersionsDesc(_)
VersionsDesc(rows) ==
  IF rows = {} THEN <<>>
  ELSE LET top == CHOOSE i \in rows :
                    \A j \in rows : \/ config_history[j].version < config_history[i].version
                                    \/ (config_history[j].version = config_history[i].version
                                          /\ i <= j)
       IN <<config_history[top].version>> \o VersionsDesc(rows \ {top})

GetConfigHistory(config_name) ==
  VersionsDesc({i \in 1..Len(config_history) : config_history[i].config_name = config_name})

\* delete_config(config_name) is called, no other call running
DeleteBegin(c, config_name) ==
  /\ \A d \in Conns : sv_pc[d] = "idle"
  /\ sv_pc' = [sv_pc EXCEPT ![c] = "delete"]
  /\ sv_args' = [sv_args EXCEPT ![c] = [config_name |-> config_name, json_data |-> None]]
  /\ sv_ret' = [sv_ret EXCEPT ![c] = NoReturn]
  /\ sv_pre' = [sv_pre EXCEPT ![c] = [configs |-> configs, config_history |-> config_history]]
  /\ UNCHANGED <<configs, config_history, sv_next, sv_tx, saved>>

\* DELETE FROM configs WHERE config_name=?; conn.commit(); return True.
\* The history rows of the name go only when the connection enforces the
\* foreign key; a name without a row deletes nothing and succeeds too.
DeleteCommit(c) ==
  /\ sv_pc[c] = "delete"
  /\ configs' = [configs EXCEPT ![sv_args[c].config_name] = NoRow]
  /\ config_history' = IF ForeignKeys /\ configs[sv_args[c].config_name] # NoRow
                       THEN RowsNotOf(config_history, {sv_args[c].config_name})
                       ELSE config_history
  /\ Return(c, [t |-> "return", ok |-> TRUE, msg |-> "Config deleted successfully"])
  /\ UNCHANGED saved

\* the DELETE or the commit raises: return False, nothing is written
DeleteFail(c) ==
  /\ sv_pc[c] = "delete"
  /\ Return(c, [t |-> "return", ok |-> FALSE, msg |-> "delete"])
  /\ UNCHANGED <<configs, config_history, saved>>

-----------------------------------------------------------------------------
(* views/migration_engine.py: render_migration_engine_page, step 1 *)

\* configurations a user may have stored or may upload: mappings with known
\* and unknown transformer and validator names, repeated sources, and an
\* ignore value that is no boolean
MigMappings ==
  [source : Columns, target : {"x"},
   transformers : {<<"TRIM">>, <<"NO_SUCH_TRANSFORMER">>},
   validators : {<<"THAI_ID">>, <<"NO_SUCH_VALIDATOR">>},
   ignore : {Absent, BoolV(TRUE), StrV(<<"n", "o">>)}]

MigConfigs ==
  {[has_mappings |-> TRUE, mappings |-> ms] :
     ms \in UNION {[1..n -> MigMappings] : n \in 0..MaxMappings}}

NoFile == [t |-> "nofile"]

\* the names get_configs_list() returns
StoredNames == {n \in ConfigNames : configs[n] # NoRow}

\* one run of the script with session state (step, config): clicked is the
\* button whose click started the run ("" when none did), sel_config the
\* value of the select box, uploaded the value of the file uploader.
\* The result is the session state and the widgets the run leaves on the page.
\* Steps 2 to 4 draw the connection test, the review and the execution.
RenderPage(step, config, clicked, sel_config, uploaded) ==
  LET step1 == IF clicked = "load_db" THEN "1.1"
               ELSE IF clicked = "upload" THEN "1.2" ELSE "1"
      top == {"load_db", "upload"}
  IN
  IF step = "1"
  THEN IF step1 = "1.1"
       THEN IF StoredNames # {}
            THEN LET loaded == GetConfigContent(sel_config) IN
                 IF clicked = "proceed_from_db"
                 THEN [step |-> "2", config |-> loaded, widgets |-> {}]
                 ELSE IF clicked = "cancel_from_db"
                 THEN [step |-> "1", config |-> None, widgets |-> top]
                 ELSE [step |-> step1, config |-> loaded,
                       widgets |-> top \cup {"mig_sel_config", "proceed_from_db",
                                             "cancel_from_db"}]
            ELSE IF clicked = "back_from_db"
                 THEN [step |-> "1", config |-> config, widgets |-> top]
                 ELSE [step |-> step1, config |-> config,
                       widgets |-> top \cup {"back_from_db"}]
       ELSE IF step1 = "1.2"
       THEN IF uploaded # NoFile
            THEN IF clicked = "proceed_from_upload"
                 THEN [step |-> "2", config |-> uploaded, widgets |-> {}]
                 ELSE IF clicked = "cancel_from_upload"
                 THEN [step |-> "1", config |-> None, widgets |-> top]
                 ELSE [step |-> step1, config |-> uploaded,
                       widgets |-> top \cup {"mig_upload_file", "proceed_from_upload",
                                             "cancel_from_upload"}]
            ELSE IF clicked = "back_from_upload"
                 THEN [step |-> "1", config |-> config, widgets |-> top]
                 ELSE [step |-> step1, config |-> config,
                       widgets |-> top \cup {"mig_upload_file", "back_from_upload"}]
       ELSE [step |-> step1, config |-> config, widgets |-> top]
  ELSE [step |-> step, config |-> config, widgets |-> {}]

\* a new session opens the page: the store holds what was saved earlier
InitMig ==
  /\ migration_step = "1"
  /\ migration_config = None
  /\ mig_widgets = {"load_db", "upload"}

IdleMig ==
  /\ migration_step = "idle"
  /\ migration_config = None
  /\ mig_widgets = {}

\* the stores the page may find: empty, or one configuration under "n1"
MigStores ==
  {[n \in ConfigNames |-> NoRow]} \cup
  {[n \in ConfigNames |->
      IF n = "n1" THEN [table_name |-> "t", json_data |-> Dumps(c)] ELSE NoRow] :
     c \in MigConfigs}

Rerun(clicked, sel_config, uploaded) ==
  LET r == RenderPage(migration_step, migration_config, clicked, sel_config, uploaded) IN
  /\ migration_step' = r.step
  /\ migration_config' = r.config
  /\ mig_widgets' = r.widgets

\* the user clicks a button the page shows; a select box drawn for the first
\* time holds its first option, a file uploader drawn for the first time no file
ClickButton(button) ==
  /\ button \in mig_widgets \ {"mig_sel_config", "mig_upload_file"}
  /\ \E sel_config \in (IF StoredNames = {} THEN {""} ELSE StoredNames) :
       Rerun(button, sel_config, NoFile)

\* the user picks a configuration in the select box
SelectConfig(sel_config) ==
  /\ "mig_sel_config" \in mig_widgets
  /\ sel_config \in StoredNames
  /\ Rerun("", sel_config, NoFile)

\* the user puts a file into the file uploader
UploadFile(uploaded) ==
  /\ "mig_upload_file" \in mig_widgets
  /\ Rerun("", "", uploaded)

-----------------------------------------------------------------------------
(* database.py: get_config_version and compare_config_versions, one call *)

\* the mappings of the stored snapshots
CmpMappings == [source : Columns, target : {"x", "y"}]

\* the snapshots: configuration objects with a list of mappings, or without
\* the key 'mappings'
CmpConfigs ==
  {NoMappings} \cup
  {[has_mappings |-> TRUE, mappings |-> ms] :
     ms \in UNION {[1..n -> CmpMappings] : n \in 0..MaxMappings}}

\* the versions a caller may ask for
AskedVersions == 1..3

\* get_config_version with the storage working or failing: the bare except
\* returns None
GetConfigVersionTry(config_name, version, storage_ok) ==
  IF storage_ok THEN GetConfigVersion(config_name, version) ELSE None

\* the keys of {m['source']: m for m in mappings}, in insertion order
RECURSIVE SourceKeys(_)
SourceKeys(ms) ==
  IF ms = <<>> THEN <<>>
  ELSE LET front == SourceKeys(SubSeq(ms, 1, Len(ms) - 1)) IN
       IF ms[Len(ms)].source \in Range(front) THEN front
       ELSE Append(front, ms[Len(ms)].source)

\* the dict {m['source']: m for m in mappings}: a later mapping of a source
\* replaces an earlier one
SourceDict(ms) ==
  [keys |-> SourceKeys(ms),
   val |-> [src \in Range(SourceKeys(ms)) |->
              ms[CHOOSE i \in 1..Len(ms) :
                   /\ ms[i].source = src
                   /\ \A j \in 1..Len(ms) : ms[j].source = src => j <= i]]]

\* mutant: a source of both versions is reported as modified without
\* comparing its mappings
RECURSIVE AddedModifiedNoCompare(_, _, _, _)
AddedModifiedNoCompare(keys, mappings_v1, mappings_v2, diff) ==
  IF keys = <<>> THEN diff
  ELSE LET source == Head(keys) IN
       AddedModifiedNoCompare(Tail(keys), mappings_v1, mappings_v2,
         IF source \notin Range(mappings_v1.keys)
         THEN [diff EXCEPT !.mappings_added = Append(@, mappings_v2.val[source])]
         ELSE [diff EXCEPT !.mappings_modified =
                 Append(@, [source |-> source, old |-> mappings_v1.val[source],
                            new |-> mappings_v2.val[source]])])

\* the loop over mappings_v2.items()
RECURSIVE AddedModifiedLoop(_, _, _, _)
AddedModifiedLoop(keys, mappings_v1, mappings_v2, diff) ==
  IF keys = <<>> THEN diff
  ELSE LET source == Head(keys) IN
       AddedModifiedLoop(Tail(keys), mappings_v1, mappings_v2,
         IF source \notin Range(mappings_v1.keys)
         THEN [diff EXCEPT !.mappings_added = Append(@, mappings_v2.val[source])]
         ELSE IF mappings_v1.val[source] # mappings_v2.val[source]
         THEN [diff EXCEPT !.mappings_modified =
                 Append(@, [source |-> source, old |-> mappings_v1.val[source],
                            new |-> mappings_v2.val[source]])]
         ELSE diff)

\* the loop over mappings_v1.items()
RECURSIVE RemovedLoop(_, _, _, _)
RemovedLoop(keys, mappings_v1, mappings_v2, diff) ==
  IF keys = <<>> THEN diff
  ELSE LET source == Head(keys) IN
       RemovedLoop(Tail(keys), mappings_v1, mappings_v2,
         IF source \notin Range(mappings_v2.keys)
         THEN [diff EXCEPT !.mappings_removed = Append(@, mappings_v1.val[source])]
         ELSE diff)

\* compare_config_versions; a configuration object is a dict with keys, so
\* "not config" is true of None alone
CompareConfigVersions(config_name, version1, version2, storage_ok) ==
  LET config_v1 == GetConfigVersionTry(config_name, version1, storage_ok)
      config_v2 == GetConfigVersionTry(config_name, version2, storage_ok)
  IN IF config_v1 = None \/ config_v2 = None THEN None
     ELSE LET mappings_v1 == SourceDict(MappingsOf(config_v1))
              mappings_v2 == SourceDict(MappingsOf(config_v2))
          IN RemovedLoop(mappings_v1.keys, mappings_v1, mappings_v2,
               AddedModifiedLoop(mappings_v2.keys, mappings_v1, mappings_v2,
                 [mappings_added |-> <<>>, mappings_removed |-> <<>>,
                  mappings_modified |-> <<>>]))

NoCall == [t |-> "nocall"]

IdleCmp ==
  /\ cmp_pc = "idle"
  /\ cmp_args = NoCall
  /\ cmp_ret = NoCall

\* a store in which n1 was saved twice
InitCmp ==
  /\ \E v1, v2 \in CmpConfigs :
       /\ config_history = <<[config_name |-> "n1", version |-> 1, json_data |-> Dumps(v1)],
                             [config_name |-> "n1", version |-> 2, json_data |-> Dumps(v2)]>>
       /\ configs = [n \in ConfigNames |->
                       IF n = "n1" THEN [table_name |-> "t", json_data |-> Dumps(v2)]
                       ELSE NoRow]
  /\ IdleSaves
  /\ cmp_pc = "ready"
  /\ cmp_args = NoCall
  /\ cmp_ret = NoCall

GetConfigVersionCall(config_name, version, storage_ok) ==
  /\ cmp_pc = "ready"
  /\ cmp_args' = [op |-> "get_config_version", config_name |-> config_name,
                  version1 |-> version, version2 |-> version, storage_ok |-> storage_ok]
  /\ cmp_ret' = GetConfigVersionTry(config_name, version, storage_ok)
  /\ cmp_pc' = "done"

CompareConfigVersionsCall(config_name, version1, version2, storage_ok) ==
  /\ cmp_pc = "ready"
  /\ cmp_args' = [op |-> "compare_config_versions", config_name |-> config_name,
                  version1 |-> version1, version2 |-> version2, storage_ok |-> storage_ok]
  /\ cmp_ret' = CompareConfigVersions(config_name, version1, version2, storage_ok)
  /\ cmp_pc' = "done"

-----------------------------------------------------------------------------
(* ml_mapper.py: the regular expressions and str tests of the analysis *)

\* most values of a sample given to analyze_column_with_sample
MaxSamples == 2

\* the working sample is valid_values[:20]
SampleCap == 20

\* the character of s at position i, "" outside s
At(s, i) == IF i \in 1..Len(s) THEN s[i] ELSE ""

\* "sub in s" of two texts
Contains(s, sub) ==
  \E i \in 0..(Len(s) - Len(sub)) : SubSeq(s, i + 1, i + Len(sub)) = sub

\* any(kw in s for kw in kws)
AnyKeyword(s, kws) == \E kw \in kws : Contains(s, kw)

DateSeparators == {"-", "/"}

\* re.search(r'25[5-9]\d', s)
ThaiYearSearch(s) ==
  \E i \in 1..Len(s) :
    /\ At(s, i) = "2" /\ At(s, i + 1) = "5"
    /\ At(s, i + 2) \in {"5", "6", "7", "8", "9"}
    /\ IsDigit(At(s, i + 3))

\* re.search(r'\d{4}[-/]\d{1,2}[-/]\d{1,2}', s)
IsoDateSearch(s) ==
  \E i \in 1..Len(s) : \E k \in 1..2 :
    /\ \A j \in 0..3 : IsDigit(At(s, i + j))
    /\ At(s, i + 4) \in DateSeparators
    /\ \A j \in 1..k : IsDigit(At(s, i + 4 + j))
    /\ At(s, i + 5 + k) \in DateSeparators
    /\ IsDigit(At(s, i + 6 + k))

\* re.search(r'\d{2,4}[-/]\d{1,2}', s)
DateIndicatorSearch(s) ==
  \E i \in 1..Len(s) :
    /\ IsDigit(At(s, i)) /\ IsDigit(At(s, i + 1))
    /\ At(s, i + 2) \in DateSeparators
    /\ IsDigit(At(s, i + 3))

\* s != s.strip()
HasOuterWhitespace(s) == s # Strip(s)

\* re.search(r'\s{2,}', s)
MultiSpaceSearch(s) ==
  \E i \in 1..Len(s) : At(s, i) \in WhiteSpace /\ At(s, i + 1) \in WhiteSpace

\* s.startswith('{') or s.startswith('[')
JsonLike(s) == At(s, 1) \in {"{", "["}

\* re.search(r'^\d+\.0+$', s), s holding no line break
FloatZeroSearch(s) ==
  \E k \in 1..Len(s) :
    /\ AllDigits(SubSeq(s, 1, k))
    /\ At(s, k + 1) = "."
    /\ k + 2 <= Len(s)
    /\ \A j \in (k + 2)..Len(s) : s[j] = "0"

\* mutant: only the text 0 counts as zero
ZeroTextOnlyZero(s) == Strip(s) = <<"0">>

\* str(s).strip() in ['0', '0.0', '00']
ZeroText(s) == Strip(s) \in {<<"0">>, <<"0", ".", "0">>, <<"0", "0">>}

\* s.startswith('0') and s.isdigit() and len(s) > 1
LeadingZeroDigits(s) == At(s, 1) = "0" /\ AllDigits(s) /\ Len(s) > 1

\* re.match(r'^\d{lo,hi}$', s), s holding no line break
DigitRun(s, lo, hi) == AllDigits(s) /\ Len(s) \in lo..hi

\* sum(1 for s in sample_str if Test(s))
Matches(sample_str, Test(_)) ==
  Cardinality({i \in 1..Len(sample_str) : Test(sample_str[i])})

-----------------------------------------------------------------------------
(* ml_mapper.py: scores and reasons *)

RECURSIVE GCD(_, _)
GCD(a, b) == IF b = 0 THEN a ELSE GCD(b, a % b)

\* the score n/d, in lowest terms; the thresholds of the analysis compare a
\* count with len * 0.5, len * 0.7 or len * 0.3, which for a len of at most
\* SampleCap agree with the comparison of the fractions
Score(n, d) == [n |-> n \div GCD(n, d), d |-> d \div GCD(n, d)]

ScoreLE(a, b) == a.n * b.d <= b.n * a.d

\* mutant: the later score replaces the earlier one
ScoreOverwritten(a, b) == b

\* max(a, b) and min(a, b)
ScoreMax(a, b) == IF ScoreLE(a, b) THEN b ELSE a

\* mutant: min(a, b) forgotten, the fraction is taken as it is
ScoreUncapped(a, b) == b

ScoreMin(a, b) == IF ScoreLE(a, b) THEN a ELSE b

\* one clause of a reason text: its wording and the numbers written into it
Clause(t, count, total) == [t |-> t, count |-> count, total |-> total]

\* the reason '' and the reason result starts with
NoReason == <<>>

StandardMapping == <<Clause("Standard mapping", 0, 0)>>

-----------------------------------------------------------------------------
(* ml_mapper.py: the detectors of analyze_column_with_sample *)

\* _analyze_date_patterns
AnalyzeDatePatterns(sample_str) ==
  LET total == Len(sample_str)
      thai_matches == Matches(sample_str, ThaiYearSearch)
      iso_matches == Matches(sample_str, IsoDateSearch)
      date_indicators == Matches(sample_str, DateIndicatorSearch)
  IN IF 2 * thai_matches > total
     THEN [detected |-> TRUE, transformers |-> <<"BUDDHIST_TO_ISO">>,
           confidence |-> ScoreMin(Score(9, 10), Score(thai_matches, total)),
           reason |-> <<Clause("Detected Thai Buddhist year", thai_matches, total)>>]
     ELSE IF 10 * iso_matches > 7 * total
     THEN [detected |-> TRUE, transformers |-> <<>>, confidence |-> Score(8, 10),
           reason |-> <<Clause("Detected ISO date format", iso_matches, total)>>]
     ELSE IF 2 * date_indicators > total
     THEN [detected |-> TRUE, transformers |-> <<"ENG_DATE_TO_ISO">>,
           confidence |-> Score(6, 10),
           reason |-> <<Clause("Mixed date formats detected", 0, 0)>>]
     ELSE [detected |-> FALSE, transformers |-> <<>>, confidence |-> Score(5, 10),
           reason |-> NoReason]

\* _analyze_string_quality
AnalyzeStringQuality(sample_str) ==
  LET total == Len(sample_str)
      whitespace_count == Matches(sample_str, HasOuterWhitespace)
      multi_space_count == Matches(sample_str, MultiSpaceSearch)
      json_indicators == Matches(sample_str, JsonLike)
      r0 == [has_issues |-> FALSE, transformers |-> <<>>, reason |-> NoReason]
      r1 == IF whitespace_count > 0
            THEN [has_issues |-> TRUE, transformers |-> <<"TRIM">>,
                  reason |-> <<Clause("Leading/trailing whitespace",
                                      whitespace_count, total)>>]
            ELSE r0
      r2 == IF 10 * multi_space_count > 3 * total
            THEN [has_issues |-> TRUE,
                  transformers |-> Append(r1.transformers, "CLEAN_SPACES"),
                  reason |-> IF r1.reason # NoReason
                             THEN Append(r1.reason,
                                         Clause("multiple spaces", multi_space_count, 0))
                             ELSE r1.reason]
            ELSE r1
  IN IF 2 * json_indicators > total
     THEN [has_issues |-> TRUE,
           transformers |-> Append(r2.transformers, "PARSE_JSON"),
           reason |-> <<Clause("JSON/array structures detected", 0, 0)>>]
     ELSE r2

\* mutant: the float-rendered branch does not return, the all-zero test
\* follows it
AnalyzeNumericPatternsNoReturn(sample_str, col_name) ==
  LET total == Len(sample_str)
      float_matches == Matches(sample_str, FloatZeroSearch)
      all_zeros == \A i \in 1..total : ZeroText(sample_str[i])
      name == Lower(col_name)
      none == [detected |-> FALSE, transformers |-> <<>>, should_ignore |-> FALSE,
               reason |-> NoReason]
      floats == IF 10 * float_matches > 7 * total
                THEN [none EXCEPT !.detected = TRUE, !.transformers = <<"FLOAT_TO_INT">>,
                        !.reason = <<Clause("Detected float format IDs",
                                            float_matches, total)>>]
                ELSE none
  IN IF all_zeros /\ ~AnyKeyword(name, {<<"c", "o", "u", "n", "t">>,
                                        <<"f", "l", "a", "g">>,
                                        <<"s", "t", "a", "t", "u", "s">>})
     THEN [floats EXCEPT !.detected = TRUE, !.should_ignore = TRUE,
             !.reason = <<Clause("All values are zero", 0, 0)>>]
     ELSE floats

\* _analyze_numeric_patterns
AnalyzeNumericPatterns(sample_str, col_name) ==
  LET total == Len(sample_str)
      float_matches == Matches(sample_str, FloatZeroSearch)
      all_zeros == \A i \in 1..total : ZeroText(sample_str[i])
      name == Lower(col_name)
      none == [detected |-> FALSE, transformers |-> <<>>, should_ignore |-> FALSE,
               reason |-> NoReason]
  IN IF 10 * float_matches > 7 * total
     THEN [none EXCEPT !.detected = TRUE, !.transformers = <<"FLOAT_TO_INT">>,
             !.reason = <<Clause("Detected float format IDs", float_matches, total)>>]
     ELSE IF all_zeros /\ ~AnyKeyword(name, {<<"c", "o", "u", "n", "t">>,
                                             <<"f", "l", "a", "g">>,
                                             <<"s", "t", "a", "t", "u", "s">>})
     THEN [none EXCEPT !.detected = TRUE, !.should_ignore = TRUE,
             !.reason = <<Clause("All values are zero", 0, 0)>>]
     ELSE IF /\ AnyKeyword(name, {<<"i", "d">>, <<"c", "o", "d", "e">>,
                                  <<"n", "u", "m", "b", "e", "r">>})
             /\ \E i \in 1..total : LeadingZeroDigits(sample_str[i])
     THEN [none EXCEPT !.detected = TRUE,
             !.reason = <<Clause("ID with leading zeros", 0, 0)>>]
     ELSE none

\* mutant: the keyword hn is forgotten
HnKeywordsWithoutHn ==
  { <<"h", "o", "s", "p", "i", "t", "a", "l", "_", "n", "u", "m", "b", "e", "r">>,
    <<"m", "r", "n">> }

\* the keywords of a Hospital Number column
HnKeywords ==
  { <<"h", "n">>,
    <<"h", "o", "s", "p", "i", "t", "a", "l", "_", "n", "u", "m", "b", "e", "r">>,
    <<"m", "r", "n">> }

\* the keywords _analyze_his_patterns looks for in a target name of a
\* national ID column; a source name may also hold id_card
CidKeywords ==
  { <<"c", "i", "d">>,
    <<"n", "a", "t", "i", "o", "n", "a", "l", "_", "i", "d">>,
    <<"c", "i", "t", "i", "z", "e", "n", "_", "i", "d">> }

\* _analyze_his_patterns
AnalyzeHisPatterns(source_col, target_col, sample_str) ==
  LET total == Len(sample_str)
      src_lower == Lower(source_col.s)
      tgt_lower == IF Truthy(target_col) THEN Lower(target_col.s) ELSE <<>>
      hn_matches == Matches(sample_str, LAMBDA s : DigitRun(s, 6, 10))
      cid_matches == Matches(sample_str, LAMBDA s : DigitRun(s, 13, 13))
      none == [detected |-> FALSE, is_match |-> TRUE, confidence |-> Score(5, 10),
               reason |-> NoReason]
  IN IF AnyKeyword(src_lower, HnKeywords)
     THEN IF AnyKeyword(tgt_lower, HnKeywords)
          THEN [none EXCEPT !.detected = TRUE, !.confidence = Score(hn_matches, total),
                  !.reason = <<Clause("HN pattern matched", hn_matches, total)>>]
          ELSE [none EXCEPT !.detected = TRUE, !.confidence = Score(hn_matches, total),
                  !.is_match = FALSE,
                  !.reason = <<Clause("Source is HN but target seems different", 0, 0)>>]
     ELSE IF AnyKeyword(src_lower, CidKeywords \cup {<<"i", "d", "_", "c", "a", "r", "d">>})
     THEN IF AnyKeyword(tgt_lower, CidKeywords)
          THEN [none EXCEPT !.detected = TRUE, !.confidence = Score(cid_matches, total),
                  !.reason = <<Clause("CID pattern matched", cid_matches, total)>>]
          ELSE [none EXCEPT !.detected = TRUE, !.confidence = Score(cid_matches, total)]
     ELSE IF AnyKeyword(src_lower, {<<"v", "n">>, <<"v", "i", "s", "i", "t">>, <<"a", "n">>,
                                    <<"a", "d", "m", "i", "s", "s", "i", "o", "n">>})
     THEN [none EXCEPT !.detected = TRUE, !.confidence = Score(7, 10),
             !.reason = <<Clause("Healthcare visit/admission identifier detected", 0, 0)>>]
     ELSE none

-----------------------------------------------------------------------------
(* ml_mapper.py: analyze_column_with_sample, one call *)

\* mutant: the token NaN is not dropped
SkippedTextsWithoutNaN == {<<>>, <<"N", "o", "n", "e">>, <<"n", "u", "l", "l">>}

\* the texts a sample value is dropped for
SkippedTexts == {<<>>, <<"N", "a", "N">>, <<"N", "o", "n", "e">>, <<"n", "u", "l", "l">>}

\* valid_values: the sample without None and without the skipped texts
ValidValues(sample_values) ==
  SelectSeq(sample_values, LAMBDA v : v # None /\ Strip(PyStr(v)) \notin SkippedTexts)

\* sample_str: the first SampleCap valid values, as stripped texts
SampleStr(valid_values) ==
  [i \in 1..(IF Len(valid_values) < SampleCap THEN Len(valid_values) ELSE SampleCap) |->
     Strip(PyStr(valid_values[i]))]

\* list(dict.fromkeys(transformers)): the first occurrence of each name
RECURSIVE DictFromKeys(_)
DictFromKeys(transformers) ==
  IF transformers = <<>> THEN <<>>
  ELSE LET front == SubSeq(transformers, 1, Len(transformers) - 1)
           last == transformers[Len(transformers)]
       IN IF \E i \in 1..Len(front) : front[i] = last
          THEN DictFromKeys(front)
          ELSE Append(DictFromKeys(front), last)

\* analyze_column_with_sample: the dict returned
AnalyzeColumnWithSample(source_col_name, target_col_name, sample_values) ==
  LET valid_values == ValidValues(sample_values)
      sample_str == SampleStr(valid_values)
      result == [confidence_score |-> Score(5, 10), is_match |-> TRUE,
                 transformers |-> <<>>, should_ignore |-> FALSE,
                 reason |-> StandardMapping]
      date_score == AnalyzeDatePatterns(sample_str)
      r3 == IF date_score.detected
            THEN [result EXCEPT
                    !.transformers = @ \o date_score.transformers,
                    !.confidence_score = ScoreMax(@, date_score.confidence),
                    !.reason = date_score.reason]
            ELSE result
      string_score == AnalyzeStringQuality(sample_str)
      r4 == IF string_score.has_issues
            THEN [r3 EXCEPT
                    !.transformers = @ \o string_score.transformers,
                    !.reason = IF @ = StandardMapping THEN string_score.reason ELSE @]
            ELSE r3
      numeric_score == AnalyzeNumericPatterns(sample_str, source_col_name.s)
      r5 == IF numeric_score.detected
            THEN [r4 EXCEPT
                    !.transformers = @ \o numeric_score.transformers,
                    !.should_ignore = IF numeric_score.should_ignore THEN TRUE ELSE @,
                    !.reason = IF numeric_score.should_ignore
                               THEN numeric_score.reason ELSE @]
            ELSE r4
      his_score == AnalyzeHisPatterns(source_col_name, target_col_name, sample_str)
      r6 == IF his_score.detected
            THEN [r5 EXCEPT
                    !.confidence_score = ScoreMax(@, his_score.confidence),
                    !.is_match = his_score.is_match,
                    !.reason = his_score.reason]
            ELSE r5
  IN IF valid_values = <<>>
     THEN [result EXCEPT !.should_ignore = TRUE, !.confidence_score = Score(9, 10),
             !.reason = <<Clause("All values are null/empty", 0, 0)>>]
     ELSE [r6 EXCEPT !.transformers = DictFromKeys(@)]

\* sample values: None, blank and skipped texts, padded and double-spaced
\* texts, a JSON array, dates, float-rendered and zero numbers, an HN
SampleValues ==
  { None, StrV(<<>>), StrV(<<" ">>), StrV(<<"N", "a", "N">>),
    StrV(<<"N", "o", "n", "e">>), StrV(<<"n", "u", "l", "l">>),
    StrV(<<" ", "a", "b", " ">>), StrV(<<"a", " ", " ", "b">>), StrV(<<"[", "1", "]">>),
    StrV(<<"2", "5", "6", "6", "-", "0", "5", "-", "1", "5">>),
    StrV(<<"2", "0", "2", "0", "-", "0", "1", "-", "0", "2">>),
    StrV(<<"1", "2", "/", "0", "1">>),
    StrV(<<"1", "2", "3", ".", "0">>), StrV(<<"0">>), StrV(<<"0", "0">>),
    FloatV("fin", FALSE, <<"0">>, <<>>),
    StrV(<<"1", "2", "3", "4", "5", "6">>) }

\* the values of the longer samples: a Thai date, a date-like text, a
\* double-spaced text and two zeros
CoreValues ==
  { StrV(<<"2", "5", "6", "6", "-", "0", "5", "-", "1", "5">>),
    StrV(<<"1", "2", "/", "0", "1">>), StrV(<<"a", " ", " ", "b">>),
    StrV(<<"0">>), FloatV("fin", FALSE, <<"0">>, <<>>) }

\* samples: every list of up to MaxSamples values, and the lists of one more
\* value drawn from CoreValues, where a count is a third of the sample
Samples ==
  UNION {[1..n -> SampleValues] : n \in 0..MaxSamples}
    \cup [1..(MaxSamples + 1) -> CoreValues]

\* source column names: HN, national ID, visit counter, counter, plain
SourceNames ==
  { StrV(<<"H", "N">>), StrV(<<"c", "i", "d">>),
    StrV(<<"v", "i", "s", "i", "t", "_", "c", "o", "u", "n", "t">>),
    StrV(<<"c", "o", "u", "n", "t">>), StrV(<<"n", "a", "m", "e">>) }

\* target column names: none, empty, HN, national ID, plain
TargetNames ==
  { None, StrV(<<>>), StrV(<<"p", "a", "t", "i", "e", "n", "t", "_", "h", "n">>),
    StrV(<<"c", "i", "d">>), StrV(<<"n", "a", "m", "e">>) }

NoAnalysis == [t |-> "noanalysis"]

IdleAn ==
  /\ an_pc = "idle"
  /\ an_args = NoAnalysis
  /\ an_result = NoAnalysis

InitAn ==
  /\ an_pc = "ready"
  /\ an_args \in [source_col_name : SourceNames, target_col_name : TargetNames,
                  sample_values : Samples]
  /\ an_result = NoAnalysis

\* the call analyze_column_with_sample(**an_args)
AnalyzeColumnWithSampleCall ==
  /\ an_pc = "ready"
  /\ an_pc' = "done"
  /\ an_result' = AnalyzeColumnWithSample(an_args.source_col_name,
                                          an_args.target_col_name,
                                          an_args.sample_values)
  /\ UNCHANGED an_args

-----------------------------------------------------------------------------
(* ml_mapper.py: suggest_mapping, one call *)

\* most columns of the source list and of the target list
MaxColumns == 2

\* one entry of his_dictionary
Group(key, possible_targets) == [key |-> key, possible_targets |-> possible_targets]

\* his_dictionary, in the order of its keys
HisDictionary ==
  <<
     Group(<<"h", "n">>,
           <<<<"h", "n">>,
             <<"h", "o", "s", "p", "i", "t", "a", "l", "_", "n", "u", "m", "b", "e", "r">>,
             <<"m", "r", "n">>,
             <<"p", "a", "t", "i", "e", "n", "t", "_", "c", "o", "d", "e">>>>),
     Group(<<"v", "n">>,
           <<<<"v", "n">>,
             <<"v", "i", "s", "i", "t", "_", "n", "u", "m", "b", "e", "r">>,
             <<"v", "i", "s", "i", "t", "_", "n", "o">>>>),
     Group(<<"a", "n">>,
           <<<<"a", "n">>,
             <<"a", "d", "m", "i", "s", "s", "i", "o", "n", "_", "n", "u", "m", "b", "e", "r">>,
             <<"a", "d", "m", "i", "t", "_", "n", "o">>>>),
     Group(<<"c", "i", "d">>,
           <<<<"c", "i", "d">>,
             <<"n", "a", "t", "i", "o", "n", "a", "l", "_", "i", "d">>,
             <<"c", "a", "r", "d", "_", "i", "d">>,
             <<"c", "i", "t", "i", "z", "e", "n", "_", "i", "d">>,
             <<"i", "d", "_", "c", "a", "r", "d">>>>),
     Group(<<"d", "o", "b">>,
           <<<<"d", "o", "b">>,
             <<"b", "i", "r", "t", "h", "_", "d", "a", "t", "e">>,
             <<"b", "i", "r", "t", "h", "d", "a", "t", "e">>,
             <<"d", "a", "t", "e", "_", "o", "f", "_", "b", "i", "r", "t", "h">>>>),
     Group(<<"p", "n", "a", "m", "e">>,
           <<<<"p", "r", "e", "f", "i", "x">>,
             <<"t", "i", "t", "l", "e">>,
             <<"p", "n", "a", "m", "e">>>>),
     Group(<<"f", "n", "a", "m", "e">>,
           <<<<"f", "i", "r", "s", "t", "n", "a", "m", "e">>,
             <<"f", "i", "r", "s", "t", "_", "n", "a", "m", "e">>,
             <<"n", "a", "m", "e">>>>),
     Group(<<"l", "n", "a", "m", "e">>,
           <<<<"l", "a", "s", "t", "n", "a", "m", "e">>,
             <<"l", "a", "s", "t", "_", "n", "a", "m", "e">>,
             <<"s", "u", "r", "n", "a", "m", "e">>>>),
     Group(<<"s", "e", "x">>,
           <<<<"g", "e", "n", "d", "e", "r">>,
             <<"s", "e", "x">>>>),
     Group(<<"d", "i", "a", "g">>,
           <<<<"d", "i", "a", "g", "n", "o", "s", "i", "s">>,
             <<"i", "c", "d", "1", "0">>,
             <<"d", "i", "a", "g", "_", "c", "o", "d", "e">>>>),
     Group(<<"b", "p">>,
           <<<<"b", "l", "o", "o", "d", "_", "p", "r", "e", "s", "s", "u", "r", "e">>,
             <<"b", "p", "_", "s", "y", "s">>,
             <<"b", "p", "_", "d", "i", "a">>>>),
     Group(<<"b", "w">>,
           <<<<"b", "o", "d", "y", "_", "w", "e", "i", "g", "h", "t">>,
             <<"w", "e", "i", "g", "h", "t">>>>),
     Group(<<"h", "t">>,
           <<<<"h", "e", "i", "g", "h", "t">>>>),
     Group(<<"c", "c">>,
           <<<<"c", "h", "i", "e", "f", "_", "c", "o", "m", "p", "l", "a", "i", "n", "t">>,
             <<"s", "y", "m", "p", "t", "o", "m">>>>) >>

\* name == key or name in possible_targets, of one entry
InGroup(name, group) ==
  \/ name = group.key
  \/ \E i \in 1..Len(group.possible_targets) : group.possible_targets[i] = name

\* re.sub(r'[^a-z0-9]', '', s)
AlphaNum(s) ==
  SelectSeq(s, LAMBDA c : IsDigit(c) \/ \E i \in 1..26 : LowerSeq[i] = c)

\* the dictionary step for one source column: the first target of the first
\* entry that holds both the source and a target, None when there is none
DictionaryMatch(src_lower, target_cols) ==
  LET holds(k, j) == /\ InGroup(src_lower, HisDictionary[k])
                     /\ InGroup(Strip(Lower(target_cols[j].s)), HisDictionary[k])
      ks == {k \in 1..Len(HisDictionary) : \E j \in 1..Len(target_cols) : holds(k, j)}
      k0 == CHOOSE k \in ks : \A l \in ks : k <= l
      j0 == CHOOSE j \in 1..Len(target_cols) :
              holds(k0, j) /\ \A i \in 1..Len(target_cols) : holds(k0, i) => j <= i
  IN IF ks = {} THEN None ELSE target_cols[j0]

\* the direct text match for one source column: the first target with the
\* same letters and digits, None when there is none
DirectMatch(src_lower, target_cols) ==
  LET same(j) == AlphaNum(src_lower) = AlphaNum(Lower(target_cols[j].s))
      js == {j \in 1..Len(target_cols) : same(j)}
  IN IF js = {} THEN None ELSE target_cols[CHOOSE j \in js : \A i \in js : j <= i]

\* the semantic step: best is the index np.argmax gives, 0 when the best
\* score is under the threshold
SemanticMatch(target_cols, best) == IF best = 0 THEN None ELSE target_cols[best]

\* found_match of one source column after the dictionary step and the direct
\* text match
FoundMatch(src_col, target_cols) ==
  LET src_lower == Strip(Lower(src_col.s))
      found_match == DictionaryMatch(src_lower, target_cols)
  IN IF Truthy(found_match) THEN found_match ELSE DirectMatch(src_lower, target_cols)

\* suggest_mapping: the dict returned, the semantic model answering best[c]
\* for source column c
SuggestMapping(source_cols, target_cols, best) ==
  IF source_cols = <<>> \/ target_cols = <<>>
  THEN [c \in {} |-> None]
  ELSE [c \in Range(source_cols) |->
          IF Truthy(FoundMatch(c, target_cols))
          THEN FoundMatch(c, target_cols)
          ELSE SemanticMatch(target_cols, best[c])]

\* source column names: a key, a name holding a key as a part, a synonym,
\* a padded upper-case key, a name of no entry, a name in another spelling
SourceColumns ==
  { StrV(<<"h", "n">>),
    StrV(<<"p", "a", "t", "i", "e", "n", "t", "_", "h", "n">>),
    StrV(<<"m", "r", "n">>),
    StrV(<<" ", "V", "N", " ">>),
    StrV(<<"r", "a", "n", "d", "o", "m", "_", "f", "i", "e", "l", "d">>),
    StrV(<<"C", "r", "e", "a", "t", "e", "D", "a", "t", "e">>) }

\* target column names: synonyms of three entries, a name of no entry, a
\* name in another spelling, an upper-case key
TargetNamesOffered ==
  { StrV(<<"h", "o", "s", "p", "i", "t", "a", "l", "_", "n", "u", "m", "b", "e", "r">>),
    StrV(<<"m", "r", "n">>),
    StrV(<<"v", "i", "s", "i", "t", "_", "n", "o">>),
    StrV(<<"a", "n", "o", "t", "h", "e", "r", "_", "f", "i", "e", "l", "d">>),
    StrV(<<"c", "r", "e", "a", "t", "e", "_", "d", "a", "t", "e">>),
    StrV(<<"H", "N">>) }

SourceLists == UNION {[1..n -> SourceColumns] : n \in 0..MaxColumns}

TargetLists == UNION {[1..n -> TargetNamesOffered] : n \in 0..MaxColumns}

NoSuggestion == [t |-> "nosuggestion"]

IdleSug ==
  /\ sm_pc = "idle"
  /\ sm_args = NoSuggestion
  /\ sm_found = NoSuggestion
  /\ sm_ret = NoSuggestion

InitSug ==
  /\ sm_pc = "ready"
  /\ sm_args \in [source_cols : SourceLists, target_cols : TargetLists]
  /\ sm_found = NoSuggestion
  /\ sm_ret = NoSuggestion

\* the call suggest_mapping(**sm_args); sm_found keeps, per source column,
\* found_match as the dictionary step left it
SuggestMappingCall ==
  /\ sm_pc = "ready"
  /\ sm_pc' = "done"
  /\ \E best \in [Range(sm_args.source_cols) -> 0..Len(sm_args.target_cols)] :
       sm_ret' = SuggestMapping(sm_args.source_cols, sm_args.target_cols, best)
  /\ sm_found' = IF sm_args.source_cols = <<>> \/ sm_args.target_cols = <<>>
                  THEN [c \in {} |-> None]
                  ELSE [c \in Range(sm_args.source_cols) |->
                          DictionaryMatch(Strip(Lower(c.s)), sm_args.target_cols)]
  /\ UNCHANGED sm_args

-----------------------------------------------------------------------------
(* Specifications *)

\* transform_value on every input
InitSpecTV == InitTV /\ IdleBX /\ IdleMig /\ IdleDB /\ IdleCmp /\ IdleAn /\ IdleSug

CallTransformValue == TransformValueCall /\ UNCHANGED <<varsBX, varsMig, varsDB, varsCmp, varsAn, varsSug>>

NextTV == CallTransformValue

SpecTV == InitSpecTV /\ [][NextTV]_vars

\* batch executor and read query on every batch and configuration
InitSpecBX == IdleTV /\ InitBX /\ IdleMig /\ IdleDB /\ IdleCmp /\ IdleAn /\ IdleSug

CallApplyTransformersToBatch ==
  ApplyTransformersToBatchCall /\ UNCHANGED <<varsTV, varsMig, varsDB, varsCmp, varsAn, varsSug>>

CallApplyMappingTransformers ==
  ApplyMappingTransformersCall /\ UNCHANGED <<varsTV, varsMig, varsDB, varsCmp, varsAn, varsSug>>

CallGenerateSelectQuery ==
  GenerateSelectQueryCall /\ UNCHANGED <<varsTV, varsMig, varsDB, varsCmp, varsAn, varsSug>>

NextBX ==
  \/ CallApplyTransformersToBatch
  \/ CallApplyMappingTransformers
  \/ CallGenerateSelectQuery

SpecBX == InitSpecBX /\ [][NextBX]_vars

\* step 1 of the migration page over every stored configuration
InitSpecMig ==
  /\ IdleTV /\ IdleBX /\ InitMig /\ configs \in MigStores /\ config_history = <<>> /\ IdleSaves
  /\ IdleCmp /\ IdleAn /\ IdleSug

UserClicks ==
  /\ \E button \in {"load_db", "upload", "proceed_from_db", "cancel_from_db",
                    "back_from_db", "proceed_from_upload", "cancel_from_upload",
                    "back_from_upload"} : ClickButton(button)
  /\ UNCHANGED <<varsTV, varsBX, varsDB, varsCmp, varsAn, varsSug>>

UserSelects ==
  /\ \E sel_config \in ConfigNames : SelectConfig(sel_config)
  /\ UNCHANGED <<varsTV, varsBX, varsDB, varsCmp, varsAn, varsSug>>

UserUploads ==
  /\ \E uploaded \in MigConfigs : UploadFile(uploaded)
  /\ UNCHANGED <<varsTV, varsBX, varsDB, varsCmp, varsAn, varsSug>>

NextMig == UserClicks \/ UserSelects \/ UserUploads

SpecMig == InitSpecMig /\ [][NextMig]_vars

\* the configuration store under save calls that do not overlap
InitSpecDB == IdleTV /\ IdleBX /\ IdleMig /\ InitDB /\ IdleCmp /\ IdleAn /\ IdleSug

DoSaveBegin ==
  /\ \E c \in Conns, config_name \in ConfigNames, json_data \in SavedDocs :
       SaveBegin(c, config_name, json_data)
  /\ UNCHANGED <<varsTV, varsBX, varsMig, varsCmp, varsAn, varsSug>>

DoSaveConnect == (\E c \in Conns : SaveConnect(c)) /\ UNCHANGED <<varsTV, varsBX, varsMig, varsCmp, varsAn, varsSug>>

DoSaveConnectRaise ==
  (\E c \in Conns : SaveConnectRaise(c)) /\ UNCHANGED <<varsTV, varsBX, varsMig, varsCmp, varsAn, varsSug>>

DoSaveDumps == (\E c \in Conns : SaveDumps(c)) /\ UNCHANGED <<varsTV, varsBX, varsMig, varsCmp, varsAn, varsSug>>

DoSaveSelectMax == (\E c \in Conns : SaveSelectMax(c)) /\ UNCHANGED <<varsTV, varsBX, varsMig, varsCmp, varsAn, varsSug>>

DoSaveReplace == (\E c \in Conns : SaveReplace(c)) /\ UNCHANGED <<varsTV, varsBX, varsMig, varsCmp, varsAn, varsSug>>

DoSaveInsertHistory ==
  (\E c \in Conns : SaveInsertHistory(c)) /\ UNCHANGED <<varsTV, varsBX, varsMig, varsCmp, varsAn, varsSug>>

DoSaveCommit == (\E c \in Conns : SaveCommit(c)) /\ UNCHANGED <<varsTV, varsBX, varsMig, varsCmp, varsAn, varsSug>>

DoSaveFail == (\E c \in Conns : SaveFail(c)) /\ UNCHANGED <<varsTV, varsBX, varsMig, varsCmp, varsAn, varsSug>>

NextDB ==
  \/ DoSaveBegin
  \/ DoSaveConnect
  \/ DoSaveConnectRaise
  \/ DoSaveDumps
  \/ DoSaveSelectMax
  \/ DoSaveReplace
  \/ DoSaveInsertHistory
  \/ DoSaveCommit
  \/ DoSaveFail

SpecDB == InitSpecDB /\ [][NextDB]_vars

\* saves and deletes, one call at a time
InitSpecDel == IdleTV /\ IdleBX /\ IdleMig /\ InitDB /\ IdleCmp /\ IdleAn /\ IdleSug

DoDeleteBegin ==
  /\ \E c \in Conns, config_name \in ConfigNames : DeleteBegin(c, config_name)
  /\ UNCHANGED <<varsTV, varsBX, varsMig, varsCmp, varsAn, varsSug>>

DoDeleteCommit == (\E c \in Conns : DeleteCommit(c)) /\ UNCHANGED <<varsTV, varsBX, varsMig, varsCmp, varsAn, varsSug>>

DoDeleteFail == (\E c \in Conns : DeleteFail(c)) /\ UNCHANGED <<varsTV, varsBX, varsMig, varsCmp, varsAn, varsSug>>

NextDel ==
  \/ NextDB
  \/ DoDeleteBegin
  \/ DoDeleteCommit
  \/ DoDeleteFail

SpecDel == InitSpecDel /\ [][NextDel]_vars

\* saves that overlap: every statement of a call is a step of its own
InitSpecConc == IdleTV /\ IdleBX /\ IdleMig /\ InitDB /\ IdleCmp /\ IdleAn /\ IdleSug

DoSaveCall ==
  /\ \E c \in Conns, config_name \in ConfigNames, json_data \in SavedDocs :
       SaveCall(c, config_name, json_data)
  /\ UNCHANGED <<varsTV, varsBX, varsMig, varsCmp, varsAn, varsSug>>

DoSaveReplaceLocked ==
  (\E c \in Conns : SaveReplaceLocked(c)) /\ UNCHANGED <<varsTV, varsBX, varsMig, varsCmp, varsAn, varsSug>>

NextConc ==
  \/ DoSaveCall
  \/ DoSaveConnect
  \/ DoSaveConnectRaise
  \/ DoSaveDumps
  \/ DoSaveSelectMax
  \/ DoSaveReplaceLocked
  \/ DoSaveInsertHistory
  \/ DoSaveCommit
  \/ DoSaveFail

SpecConc == InitSpecConc /\ [][NextConc]_vars

\* one read of the store
InitSpecCmp == IdleTV /\ IdleBX /\ IdleMig /\ InitCmp /\ IdleAn /\ IdleSug

CallGetConfigVersion ==
  /\ \E config_name \in ConfigNames, version \in AskedVersions, storage_ok \in BOOLEAN :
       GetConfigVersionCall(config_name, version, storage_ok)
  /\ UNCHANGED <<varsTV, varsBX, varsMig, varsDB, varsAn, varsSug>>

CallCompareConfigVersions ==
  /\ \E config_name \in ConfigNames, version1, version2 \in AskedVersions,
        storage_ok \in BOOLEAN :
       CompareConfigVersionsCall(config_name, version1, version2, storage_ok)
  /\ UNCHANGED <<varsTV, varsBX, varsMig, varsDB, varsAn, varsSug>>

NextCmp ==
  \/ CallGetConfigVersion
  \/ CallCompareConfigVersions

SpecCmp == InitSpecCmp /\ [][NextCmp]_vars

\* analyze_column_with_sample on every sample and pair of names
InitSpecAn == IdleTV /\ IdleBX /\ IdleMig /\ IdleDB /\ IdleCmp /\ InitAn /\ IdleSug

CallAnalyzeColumnWithSample ==
  AnalyzeColumnWithSampleCall
    /\ UNCHANGED <<varsTV, varsBX, varsMig, varsDB, varsCmp, varsSug>>

NextAn == CallAnalyzeColumnWithSample

SpecAn == InitSpecAn /\ [][NextAn]_vars

\* suggest_mapping on every pair of column lists
InitSpecSug == IdleTV /\ IdleBX /\ IdleMig /\ IdleDB /\ IdleCmp /\ IdleAn /\ InitSug

CallSuggestMapping ==
  SuggestMappingCall /\ UNCHANGED <<varsTV, varsBX, varsMig, varsDB, varsCmp, varsAn>>

NextSug == CallSuggestMapping

SpecSug == InitSpecSug /\ [][NextSug]_vars

-----------------------------------------------------------------------------
(* transform_value: claims C1 to C3 *)

\* a null value, or an empty or whitespace-only text
BlankInput(v) ==
  v = None \/ (v.t = "str" /\ \A i \in 1..Len(v.s) : v.s[i] \in WhiteSpace)

\* C1: for every transformer list, transform_value of a null value or of an
\* empty or whitespace-only text returns exactly the input and applies no
\* transformer.
C1_BlankInputReturnedUnchanged ==
  (tv_pc = "done" /\ BlankInput(tv_value)) => (tv_result = tv_value /\ tv_log = <<>>)

\* a whitespace-only text went through a list holding REPLACE_EMPTY_WITH_NULL
\* and an unknown name
C1_Witness ==
  /\ tv_pc = "done"
  /\ tv_value = StrV(<<" ", "\t">>)
  /\ tv_transformers = <<"REPLACE_EMPTY_WITH_NULL", "NO_SUCH_TRANSFORMER">>
  /\ tv_result = tv_value

\* the left fold of the steps over the list
RECURSIVE FoldSteps(_, _)
FoldSteps(v, ts) ==
  IF ts = <<>> THEN v
  ELSE LoopStep(FoldSteps(v, SubSeq(ts, 1, Len(ts) - 1)), ts[Len(ts)])

\* C2: for a non-blank input the transformers are applied strictly in list
\* order: the result is the left fold of the steps over the list, each step
\* receiving the output of the step before it, none skipped, repeated or
\* reordered.
C2_AppliedInListOrder ==
  (tv_pc = "done" /\ ~BlankInput(tv_value)) =>
    /\ tv_result = FoldSteps(tv_value, tv_transformers)
    /\ Len(tv_log) = Len(tv_transformers)
    /\ \A i \in 1..Len(tv_log) :
         /\ tv_log[i].transformer = tv_transformers[i]
         /\ tv_log[i].before = (IF i = 1 THEN tv_value ELSE tv_log[i - 1].after)
         /\ tv_log[i].after = LoopStep(tv_log[i].before, tv_transformers[i])

\* a list whose result depends on the order: MAP_GENDER before LOWER_TRIM
C2_Witness ==
  /\ tv_pc = "done"
  /\ tv_value = StrV(<<"m", "a", "l", "e">>)
  /\ tv_transformers = <<"MAP_GENDER", "LOWER_TRIM">>
  /\ tv_result = StrV(<<"m">>)

\* C3: transform_value never raises to its caller; a step in which the
\* transformer raises leaves the value as it was before the step, and the
\* transformers after it are still applied.
C3_NeverRaisesStepSkipped ==
  tv_pc = "done" =>
    /\ ~IsRaise(tv_result)
    /\ ~BlankInput(tv_value) => Len(tv_log) = Len(tv_transformers)
    /\ \A i \in 1..Len(tv_log) :
         /\ tv_log[i].raised => tv_log[i].after = tv_log[i].before
         /\ ~tv_log[i].raised =>
              tv_log[i].after = ApplyTransformer(tv_log[i].before, tv_log[i].transformer)
         /\ i < Len(tv_log) => tv_log[i + 1].before = tv_log[i].after
    /\ tv_log # <<>> => tv_result = tv_log[Len(tv_log)].after

\* a transformer raised and the transformer after it changed the value
C3_Witness ==
  /\ tv_pc = "done"
  /\ \E i \in 1..Len(tv_log) :
       /\ tv_log[i].raised
       /\ i < Len(tv_log)
       /\ tv_log[i + 1].after # tv_log[i + 1].before
       /\ tv_result = tv_log[i + 1].after

-----------------------------------------------------------------------------
(* Batch executor, read query and configuration loading: claims C4 to C7 *)

\* the ignore flag of a mapping is true
Ignored(m) == m.ignore = BoolV(TRUE)

\* no two mappings of the configuration share a source or a target
DistinctMappings(config) ==
  \A i, j \in 1..Len(config.mappings) :
    i # j => /\ config.mappings[i].source # config.mappings[j].source
             /\ config.mappings[i].target # config.mappings[j].target

\* the source field of a row, null when the row does not hold it
SourceValue(row, source) == IF source \in DOMAIN row THEN row[source] ELSE None

\* C4: for every non-ignored mapping and every input row, the output row of
\* the batch executor holds, under the target field name, the result of the
\* mapping's pipeline on the row's source field, a missing source field
\* counting as null.
C4_OutputUnderTargetName ==
  (bx_pc = "batch_done" /\ bx_config.has_mappings /\ DistinctMappings(bx_config)) =>
    \A r \in 1..Len(bx_df.rows), i \in 1..Len(bx_config.mappings) :
      LET m == bx_config.mappings[i] IN
      ~Ignored(m) =>
        /\ m.target \in DOMAIN bx_out.rows[r]
        /\ bx_out.rows[r][m.target] =
             TransformValue(SourceValue(bx_df.rows[r], m.source), m.transformers).value

\* C5: no output row of the batch executor holds the key of a source column
\* whose mapping is marked ignore=true.
C5_IgnoredColumnDropped ==
  (bx_pc = "batch_done" /\ bx_config.has_mappings /\ DistinctMappings(bx_config)) =>
    \A r \in 1..Len(bx_df.rows), i \in 1..Len(bx_config.mappings) :
      LET m == bx_config.mappings[i] IN
      (Ignored(m) /\ \A j \in 1..Len(bx_config.mappings) :
                       bx_config.mappings[j].target # m.source) =>
        m.source \notin DOMAIN bx_out.rows[r]

\* the source columns of the mappings that are not ignored, in mapping order
RECURSIVE NonIgnoredSources(_)
NonIgnoredSources(ms) ==
  IF ms = <<>> THEN <<>>
  ELSE (IF Ignored(Head(ms)) THEN <<>> ELSE <<Head(ms).source>>)
         \o NonIgnoredSources(Tail(ms))

\* C6: for every configuration with mappings, also one in which every mapping
\* is ignored, the query lists exactly the source columns of the mappings that
\* are not ignored, in mapping order, and carries a row limit exactly when a
\* positive sample limit is given.
C6_QueryListsNonIgnored ==
  (bx_pc = "query_done" /\ bx_config.has_mappings /\ bx_config.mappings # <<>>) =>
    /\ ~bx_query.star
    /\ bx_query.cols = NonIgnoredSources(bx_config.mappings)
    /\ bx_query.limit = (IF bx_limit > 0 THEN bx_limit ELSE 0)

\* the configurations the load is to accept: known transformer and validator
\* names, no source twice, ignore a boolean when given
WellFormed(config) ==
  /\ \A i \in 1..Len(config.mappings) :
       /\ Range(config.mappings[i].transformers) \subseteq KnownTransformers
       /\ Range(config.mappings[i].validators) \subseteq KnownValidators
       /\ config.mappings[i].ignore \in {Absent, BoolV(TRUE), BoolV(FALSE)}
  /\ \A i, j \in 1..Len(config.mappings) :
       i # j => config.mappings[i].source # config.mappings[j].source

\* C7: a configuration with an unknown transformer or validator name, a
\* source used twice or a non-boolean ignore is rejected when loaded: it never
\* becomes the configuration of the session, at step 1 or at a later step.
C7_MalformedConfigRejected ==
  migration_config # None => WellFormed(migration_config)

-----------------------------------------------------------------------------
(* Configuration store: claims C8 to C10 *)

\* the history rows of a config name, in rowid order
HistoryOf(config_name) ==
  LET Test(row) == row.config_name = config_name IN SelectSeq(config_history, Test)

\* the k-th save of a name holds version k
VersionsCountSaves ==
  \A n \in ConfigNames :
    /\ Len(HistoryOf(n)) = saved[n]
    /\ \A k \in 1..Len(HistoryOf(n)) : HistoryOf(n)[k].version = k

\* a step that changes the history appends one row to it, with the version
\* after the highest one of its name
HistoryAppendOnly ==
  config_history' # config_history =>
    /\ Len(config_history') = Len(config_history) + 1
    /\ SubSeq(config_history', 1, Len(config_history)) = config_history
    /\ LET row == config_history'[Len(config_history')] IN
       row.version = MaxVersion(config_history, row.config_name) + 1

\* C8: in a sequence of save calls that do not overlap, the k-th successful
\* save of a config name appends a history entry with version k, whatever was
\* saved under other names in between, and no save changes or removes an
\* existing history entry.
C8_KthSaveIsVersionK == []VersionsCountSaves /\ [][HistoryAppendOnly]_vars

\* n1 was saved, then n2, then n1 again
C8_Witness ==
  /\ Len(config_history) = 3
  /\ config_history[1].config_name = "n1" /\ config_history[1].version = 1
  /\ config_history[2].config_name = "n2" /\ config_history[2].version = 1
  /\ config_history[3].config_name = "n1" /\ config_history[3].version = 2

\* C9: for every config name with a current entry, get_config_content gives
\* the content of the history entry with the highest version of that name,
\* and that entry exists.
C9_CurrentIsLatestVersion ==
  \A n \in ConfigNames :
    configs[n] # NoRow =>
      /\ MaxVersion(config_history, n) > 0
      /\ GetConfigContent(n) = GetConfigVersion(n, MaxVersion(config_history, n))

\* n1 was saved twice with different documents
C9_Witness ==
  /\ saved["n1"] = 2
  /\ GetConfigVersion("n1", 1) = Doc("doc1")
  /\ GetConfigContent("n1") = Doc("doc2")

\* the current entry of a name and the last history entry of that name exist
\* together and hold the same text
CurrentMatchesHistory ==
  \A n \in ConfigNames :
    /\ configs[n] # NoRow <=> HistoryOf(n) # <<>>
    /\ configs[n] # NoRow =>
         configs[n].json_data = HistoryOf(n)[Len(HistoryOf(n))].json_data

\* the outcome of a call that failed: (False, message), or an exception
Failed(ret) == ret.t = "raise" \/ (ret.t = "return" /\ ~ret.ok)

\* a call that ends in failure leaves both tables as they were when it began,
\* and a failure inside the try block is returned as (False, message)
FailureChangesNothing ==
  \A c \in Conns :
    (sv_pc[c] # "idle" /\ sv_pc'[c] = "idle" /\ Failed(sv_ret'[c])) =>
      /\ configs' = sv_pre[c].configs
      /\ config_history' = sv_pre[c].config_history
      /\ sv_pc[c] # "connect" => sv_ret'[c].t = "return"

-----------------------------------------------------------------------------
(* Configuration store: claims C11 to C14 *)

\* a step in which delete_config returns success leaves no history version of
\* the name, and a step that appends a history row for a name without a
\* current entry gives it version 1
DeleteCascades ==
  /\ \A c \in Conns, n \in ConfigNames :
       (sv_pc[c] = "delete" /\ sv_args[c].config_name = n
          /\ sv_pc'[c] = "idle" /\ sv_ret'[c].ok) =>
         /\ GetConfigHistory(n)' = <<>>
         /\ \A v \in 1..MaxHistory : GetConfigVersion(n, v)' = None
  /\ (Len(config_history') = Len(config_history) + 1
        /\ configs[config_history'[Len(config_history')].config_name] = NoRow) =>
       config_history'[Len(config_history')].version = 1

\* C11: after delete_config(name) succeeds no history version of the name
\* remains: get_config_history(name) is empty, get_config_version(name, v)
\* finds nothing for every v, and the next save of the name gets version 1.
C11_DeleteRemovesHistory == [][DeleteCascades]_vars

\* C12: under every interleaving of concurrent save_config_to_db calls the
\* history never holds two entries with the same (config_name, version), and
\* the versions of a name are strictly increasing in commit order.
C12_VersionsUniqueAndIncreasing ==
  \A i, j \in 1..Len(config_history) :
    (i < j /\ config_history[i].config_name = config_history[j].config_name) =>
      config_history[i].version < config_history[j].version

\* the mappings of the snapshot stored as a version of a name
StoredMappings(config_name, version) ==
  LET row == CHOOSE r \in Range(config_history) :
               r.config_name = config_name /\ r.version = version
  IN IF row.json_data.doc.has_mappings THEN row.json_data.doc.mappings ELSE <<>>

\* a version of a name is stored
Stored(config_name, version) ==
  \E r \in Range(config_history) : r.config_name = config_name /\ r.version = version

\* the number of entries of a list with a property
Count(list, Test(_)) == Cardinality({i \in 1..Len(list) : Test(list[i])})

\* no source twice in a list of mappings
UniqueSources(ms) == \A i, j \in 1..Len(ms) : ms[i].source = ms[j].source => i = j

\* C13: compare_config_versions of two stored versions partitions the
\* sources of the two snapshots: a source only in v2 is exactly once in
\* mappings_added, a source only in v1 exactly once in mappings_removed, a
\* source in both with differing content exactly once in mappings_modified
\* with its old and its new mapping, a source in both with equal content in
\* none; a version compared with itself gives three empty lists.
C13_DiffPartitionsSources ==
  (/\ cmp_pc = "done"
   /\ cmp_args.op = "compare_config_versions"
   /\ cmp_args.storage_ok
   /\ Stored(cmp_args.config_name, cmp_args.version1)
   /\ Stored(cmp_args.config_name, cmp_args.version2)) =>
    LET m1 == StoredMappings(cmp_args.config_name, cmp_args.version1)
        m2 == StoredMappings(cmp_args.config_name, cmp_args.version2)
        S1 == {m1[i].source : i \in 1..Len(m1)}
        S2 == {m2[i].source : i \in 1..Len(m2)}
        Of(ms, src) == CHOOSE m \in Range(ms) : m.source = src
    IN
    /\ cmp_ret # None
    /\ \A src \in Columns :
         LET Has(e) == e.source = src IN
         /\ Count(cmp_ret.mappings_added, Has) = (IF src \in S2 \ S1 THEN 1 ELSE 0)
         /\ Count(cmp_ret.mappings_removed, Has) = (IF src \in S1 \ S2 THEN 1 ELSE 0)
         /\ Count(cmp_ret.mappings_modified, Has) <= 1
         /\ src \notin S1 \cap S2 => Count(cmp_ret.mappings_modified, Has) = 0
         /\ (UniqueSources(m1) /\ UniqueSources(m2)) =>
              /\ src \in S2 \ S1 => Of(m2, src) \in Range(cmp_ret.mappings_added)
              /\ src \in S1 \ S2 => Of(m1, src) \in Range(cmp_ret.mappings_removed)
              /\ (src \in S1 \cap S2 /\ Of(m1, src) # Of(m2, src)) =>
                   [source |-> src, old |-> Of(m1, src), new |-> Of(m2, src)]
                     \in Range(cmp_ret.mappings_modified)
              /\ (src \in S1 \cap S2 /\ Of(m1, src) = Of(m2, src)) =>
                   Count(cmp_ret.mappings_modified, Has) = 0
    /\ cmp_args.version1 = cmp_args.version2 =>
         cmp_ret = [mappings_added |-> <<>>, mappings_removed |-> <<>>,
                    mappings_modified |-> <<>>]

\* version 1 compared with version 2, which changed the mapping of one source
\* and added a mapping of another
C13_Witness ==
  /\ cmp_pc = "done"
  /\ cmp_args.op = "compare_config_versions"
  /\ cmp_args.version1 = 1 /\ cmp_args.version2 = 2
  /\ cmp_ret # None
  /\ Len(cmp_ret.mappings_added) = 1
  /\ Len(cmp_ret.mappings_modified) = 1
  /\ cmp_ret.mappings_removed = <<>>

\* what the call of cmp_args returns when the storage fails
ReturnedOnStorageError ==
  IF cmp_args.op = "get_config_version"
  THEN GetConfigVersionTry(cmp_args.config_name, cmp_args.version1, FALSE)
  ELSE CompareConfigVersions(cmp_args.config_name, cmp_args.version1,
                             cmp_args.version2, FALSE)

\* C14: asking get_config_version or compare_config_versions for a version
\* that is not stored gives an outcome the caller can tell from the outcome
\* of a storage error.
C14_NotFoundDistinctFromFailure ==
  (/\ cmp_pc = "done"
   /\ cmp_args.storage_ok
   /\ \/ ~Stored(cmp_args.config_name, cmp_args.version1)
      \/ ~Stored(cmp_args.config_name, cmp_args.version2)) =>
    cmp_ret # ReturnedOnStorageError

-----------------------------------------------------------------------------
(* Transformers: claims C15 to C19 *)

\* float(value) truncated to an integer, null when float() or int() fails
TruncatedOrNull(v) ==
  IF ~ToFloat(v).ok THEN None
  ELSE IF IsRaise(FloatToInt(ToFloat(v).f)) THEN None
  ELSE FloatToInt(ToFloat(v).f)

\* C15: FLOAT_TO_INT gives the float value truncated to an integer for every
\* input that parses as a number, and null (never the original value, never
\* an error) for every input whose parsing or conversion to integer fails.
C15_FloatToIntTruncatesOrNull ==
  (tv_pc = "done" /\ tv_transformers = <<"FLOAT_TO_INT">> /\ ~BlankInput(tv_value)) =>
    tv_result = TruncatedOrNull(tv_value)

\* the hyphen-separated parts of a text input, none for any other value
HyphenParts(v) == IF v.t = "str" THEN Split(v.s, "-") ELSE <<>>

\* three parts of decimal digits, the year not before 543
ThreeNumericParts(v) ==
  /\ Len(HyphenParts(v)) = 3
  /\ \A i \in 1..3 : AllDigits(HyphenParts(v)[i])
  /\ DigitsVal(HyphenParts(v)[1]) >= 543

\* three parts that int() accepts, with blanks or a sign
ThreePartsIntAccepts(v) ==
  /\ Len(HyphenParts(v)) = 3
  /\ \A i \in 1..3 : ParseInt(HyphenParts(v)[i]).ok

\* (Y-543)-M-D, the year padded to 4 digits, month and day to 2
ShiftedDate(v) ==
  StrV(FormatInt(DigitsVal(HyphenParts(v)[1]) - 543, 4) \o <<"-">>
         \o FormatInt(DigitsVal(HyphenParts(v)[2]), 2) \o <<"-">>
         \o FormatInt(DigitsVal(HyphenParts(v)[3]), 2))

\* C16: BUDDHIST_TO_ISO maps three hyphen-separated numeric parts Y-M-D to
\* (Y-543)-M-D, zero-padded to 4, 2 and 2 digits, and returns every other
\* input identical to the input, character for character.  Inputs whose parts
\* are numeric only to int() (blanks, a sign) are left open.
C16_BuddhistShiftsOrKeeps ==
  (tv_pc = "done" /\ tv_transformers = <<"BUDDHIST_TO_ISO">> /\ ~BlankInput(tv_value)) =>
    /\ ThreeNumericParts(tv_value) => tv_result = ShiftedDate(tv_value)
    /\ ~ThreePartsIntAccepts(tv_value) => tv_result = tv_value

\* an empty or whitespace-only text
EmptyOrWhitespace(v) == v.t = "str" /\ Strip(v.s) = <<>>

\* null for an empty or whitespace-only text, the value itself otherwise
NullIfEmpty(v) == IF EmptyOrWhitespace(v) THEN None ELSE v

\* C17: REPLACE_EMPTY_WITH_NULL gives null for an empty or whitespace-only
\* value and every other value unchanged, for the value it receives as a step
\* of the loop and for the value passed to transform_value when it is the only
\* entry of the list.
C17_ReplaceEmptyWithNull ==
  tv_pc = "done" =>
    /\ \A i \in DOMAIN tv_log :
         tv_log[i].transformer = "REPLACE_EMPTY_WITH_NULL" =>
           tv_log[i].after = NullIfEmpty(tv_log[i].before)
    /\ tv_transformers = <<"REPLACE_EMPTY_WITH_NULL">> =>
         tv_result = NullIfEmpty(tv_value)

\* a name _apply_transformer has no branch for
UnknownName(transformer) == transformer \notin KnownTransformers

\* the list without the names that have no branch
KnownOnly(transformers) == SelectSeq(transformers, LAMBDA t : ~UnknownName(t))

\* C18: a transformer name that is not one of the known names leaves the
\* value unchanged at its step and raises nothing, and the other transformers
\* of the list are applied in order: the loop makes one pass per entry and the
\* result is the result of the list without the unknown names.
C18_UnknownNamePassesThrough ==
  (tv_pc = "done" /\ ~BlankInput(tv_value)) =>
    /\ Len(tv_log) = Len(tv_transformers)
    /\ \A i \in DOMAIN tv_log :
         UnknownName(tv_log[i].transformer) =>
           tv_log[i].after = tv_log[i].before /\ ~tv_log[i].raised
    /\ ~IsRaise(tv_result)
    /\ tv_result = TransformValue(tv_value, KnownOnly(tv_transformers)).value

\* an unknown name followed by TRIM: the text is still stripped
C18_Witness ==
  /\ tv_pc = "done"
  /\ tv_transformers = <<"NO_SUCH_TRANSFORMER", "TRIM">>
  /\ tv_value = StrV(<<" ", "a", "b", " ">>)
  /\ tv_result = StrV(<<"a", "b">>)

\* C19: the list [TRIM] run on the result of the list [TRIM] gives that
\* result again, and the list [TRIM, TRIM] gives the result of [TRIM], for
\* every value.
C19_TrimIdempotent ==
  /\ (tv_pc = "done" /\ tv_transformers = <<"TRIM">>) =>
       TransformValue(tv_result, <<"TRIM">>).value = tv_result
  /\ (tv_pc = "done" /\ tv_transformers = <<"TRIM", "TRIM">>) =>
       tv_result = TransformValue(tv_value, <<"TRIM">>).value

\* a text with two blanks in front, stripped by [TRIM, TRIM]
C19_Witness ==
  /\ tv_pc = "done"
  /\ tv_transformers = <<"TRIM", "TRIM">>
  /\ tv_value = StrV(<<" ", " ", "7", " ">>)
  /\ tv_result = StrV(<<"7">>)

-----------------------------------------------------------------------------
(* Column analysis: claim C20 *)

\* a sample value with leading or trailing whitespace that the analysis keeps
PaddedSample(v) ==
  v # None /\ Strip(PyStr(v)) \notin SkippedTexts /\ PyStr(v) # Strip(PyStr(v))

\* C20: when at least one value of the sample given to
\* analyze_column_with_sample has leading or trailing whitespace, and the
\* sample is not entirely empty, the transformers returned contain TRIM.
C20_PaddedSampleSuggestsTrim ==
  (/\ an_pc = "done"
   /\ \E i \in 1..Len(an_args.sample_values) : PaddedSample(an_args.sample_values[i])) =>
    \E j \in 1..Len(an_result.transformers) : an_result.transformers[j] = "TRIM"

-----------------------------------------------------------------------------
(* Column analysis: claims C21 to C24 *)

\* the lower-cased text of a column name, '' for a name that is None or empty
NameText(name) == IF name = None THEN <<>> ELSE Lower(name.s)

\* the name contains hn, hospital_number or mrn
SignalsHN(name) ==
  \/ Contains(NameText(name), <<"h", "n">>)
  \/ Contains(NameText(name), <<"m", "r", "n">>)
  \/ Contains(NameText(name),
              <<"h", "o", "s", "p", "i", "t", "a", "l", "_", "n", "u", "m", "b", "e", "r">>)

\* at least one value of the sample is left by the emptiness filter
SampleNotEmpty == ValidValues(an_args.sample_values) # <<>>

\* is_match follows the target name, and a mismatch comes with a reason
HnRule ==
  /\ an_result.is_match <=> SignalsHN(an_args.target_col_name)
  /\ ~SignalsHN(an_args.target_col_name) =>
       an_result.is_match = FALSE /\ an_result.reason # NoReason

\* C21, as stated: when the source name signals Hospital Number, is_match is
\* true if and only if the target name signals it too, and any other target
\* name gives is_match false with a non-empty reason, for every sample.
C21_HnRuleEverySample ==
  (an_pc = "done" /\ SignalsHN(an_args.source_col_name)) => HnRule

\* C21, amended: when the source name signals Hospital Number and the sample
\* is not entirely empty, is_match is true if and only if the target name
\* signals Hospital Number too, and any other target name (an empty one and
\* None included) gives is_match false with a non-empty reason.
C21_HnRuleNonEmptySample ==
  (an_pc = "done" /\ SignalsHN(an_args.source_col_name) /\ SampleNotEmpty) => HnRule

\* an HN source mapped to a target without the keyword
C21_Witness ==
  /\ an_pc = "done"
  /\ SignalsHN(an_args.source_col_name)
  /\ SampleNotEmpty
  /\ an_args.target_col_name = StrV(<<"n", "a", "m", "e">>)
  /\ an_result.is_match = FALSE

\* the name contains cid, national_id, citizen_id or id_card
SignalsNationalId(name) ==
  \/ Contains(NameText(name), <<"c", "i", "d">>)
  \/ Contains(NameText(name), <<"n", "a", "t", "i", "o", "n", "a", "l", "_", "i", "d">>)
  \/ Contains(NameText(name), <<"c", "i", "t", "i", "z", "e", "n", "_", "i", "d">>)
  \/ Contains(NameText(name), <<"i", "d", "_", "c", "a", "r", "d">>)

\* C22: when the source name signals a national ID (and not a Hospital
\* Number, which is looked for first) and the sample is not entirely empty,
\* is_match is true only if the target name signals a national ID too; any
\* other target name gives is_match false with a non-empty reason.
C22_NationalIdRule ==
  (/\ an_pc = "done"
   /\ SignalsNationalId(an_args.source_col_name)
   /\ ~SignalsHN(an_args.source_col_name)
   /\ SampleNotEmpty
   /\ ~SignalsNationalId(an_args.target_col_name)) =>
    an_result.is_match = FALSE /\ an_result.reason # NoReason

\* the working sample of the call: the first SampleCap values the emptiness
\* filter leaves, as stripped texts
WorkingSample == SampleStr(ValidValues(an_args.sample_values))

\* the number of working samples that hold a Thai Buddhist year
ThaiCount == Matches(WorkingSample, ThaiYearSearch)

\* min(0.9, ThaiCount / len(WorkingSample))
ThaiConfidence ==
  IF 10 * ThaiCount <= 9 * Len(WorkingSample)
  THEN Score(ThaiCount, Len(WorkingSample))
  ELSE Score(9, 10)

\* the name contains vn, visit, an or admission
SignalsVisit(name) ==
  \/ Contains(NameText(name), <<"v", "n">>)
  \/ Contains(NameText(name), <<"v", "i", "s", "i", "t">>)
  \/ Contains(NameText(name), <<"a", "n">>)
  \/ Contains(NameText(name), <<"a", "d", "m", "i", "s", "s", "i", "o", "n">>)

\* the source name signals no domain identifier
PlainSource ==
  /\ ~SignalsHN(an_args.source_col_name)
  /\ ~SignalsNationalId(an_args.source_col_name)
  /\ ~SignalsVisit(an_args.source_col_name)

HasTransformer(name) ==
  \E j \in 1..Len(an_result.transformers) : an_result.transformers[j] = name

\* C23: when more than half of the working sample holds a Thai Buddhist
\* year, the transformers contain BUDDHIST_TO_ISO and not ENG_DATE_TO_ISO, the
\* confidence score is at least min(0.9, matching fraction), is exactly the
\* larger of 0.5 and that value when the source name signals no domain
\* identifier, and is at least 0.9 when every working sample matches.
C23_ThaiYearMajority ==
  (an_pc = "done" /\ SampleNotEmpty /\ 2 * ThaiCount > Len(WorkingSample)) =>
    /\ HasTransformer("BUDDHIST_TO_ISO")
    /\ ~HasTransformer("ENG_DATE_TO_ISO")
    /\ ScoreLE(ThaiConfidence, an_result.confidence_score)
    /\ PlainSource => an_result.confidence_score = ThaiConfidence
    /\ ThaiCount = Len(WorkingSample) => ScoreLE(Score(9, 10), an_result.confidence_score)

\* two Thai dates among three working samples: the score is 2/3
C23_Witness ==
  /\ an_pc = "done"
  /\ Len(WorkingSample) = 3
  /\ ThaiCount = 2
  /\ HasTransformer("BUDDHIST_TO_ISO")
  /\ an_result.confidence_score = Score(2, 3)

\* a sample value that is null, empty, whitespace-only or one of the tokens
\* NaN, None, null
EmptyLike(v) ==
  \/ v = None
  \/ /\ v.t = "str"
     /\ \/ Strip(v.s) = <<>>
        \/ v.s \in {<<"N", "a", "N">>, <<"N", "o", "n", "e">>, <<"n", "u", "l", "l">>}

\* C24: when every value of the sample is null, empty, whitespace-only or one
\* of the tokens NaN, None, null, the result has should_ignore true, confidence
\* score 0.9, no transformer and the all-empty reason, whatever the source and
\* target names are.
C24_AllEmptyShortCircuit ==
  (/\ an_pc = "done"
   /\ \A i \in 1..Len(an_args.sample_values) : EmptyLike(an_args.sample_values[i])) =>
    /\ an_result.should_ignore = TRUE
    /\ an_result.confidence_score = Score(9, 10)
    /\ an_result.transformers = <<>>
    /\ an_result.reason = <<Clause("All values are null/empty", 0, 0)>>

\* None and the token NaN under an HN source mapped to a plain target
C24_Witness ==
  /\ an_pc = "done"
  /\ an_args.sample_values = <<None, StrV(<<"N", "a", "N">>)>>
  /\ an_args.source_col_name = StrV(<<"H", "N">>)
  /\ an_args.target_col_name = StrV(<<"n", "a", "m", "e">>)
  /\ an_result.should_ignore = TRUE

-----------------------------------------------------------------------------
(* Column analysis: claims C27, C28 and C30 *)

\* the place of a transformer in the order of the detectors: date, then
\* TRIM, CLEAN_SPACES, PARSE_JSON, then FLOAT_TO_INT; 0 for any other name
DetectorRank(name) ==
  CASE name \in {"BUDDHIST_TO_ISO", "ENG_DATE_TO_ISO"} -> 1
    [] name = "TRIM" -> 2
    [] name = "CLEAN_SPACES" -> 3
    [] name = "PARSE_JSON" -> 4
    [] name = "FLOAT_TO_INT" -> 5
    [] OTHER -> 0

\* every name of list is a name of the result
KeptInResult(list) == \A i \in 1..Len(list) : HasTransformer(list[i])

\* C27: the transformers returned hold only detector names in strictly
\* increasing detector order (so no duplicate and never both date
\* transformers), every transformer a detector recommends for the working
\* sample is in the result, and the confidence score is never under the
\* initial 0.5 nor under the confidence of the date detector.
C27_DetectorOrderKept ==
  an_pc = "done" =>
    /\ \A i \in 1..Len(an_result.transformers) :
         DetectorRank(an_result.transformers[i]) > 0
    /\ \A i, j \in 1..Len(an_result.transformers) :
         i < j => DetectorRank(an_result.transformers[i])
                    < DetectorRank(an_result.transformers[j])
    /\ SampleNotEmpty =>
         /\ KeptInResult(AnalyzeDatePatterns(WorkingSample).transformers)
         /\ KeptInResult(AnalyzeStringQuality(WorkingSample).transformers)
         /\ KeptInResult(AnalyzeNumericPatterns(WorkingSample,
                                                an_args.source_col_name.s).transformers)
         /\ AnalyzeDatePatterns(WorkingSample).detected =>
              ScoreLE(AnalyzeDatePatterns(WorkingSample).confidence,
                      an_result.confidence_score)
    /\ ScoreLE(Score(5, 10), an_result.confidence_score)

\* a date and a string-quality transformer under an HN source whose samples
\* are no hospital numbers: the score of the date detector stays
C27_Witness ==
  /\ an_pc = "done"
  /\ an_result.transformers = <<"ENG_DATE_TO_ISO", "CLEAN_SPACES">>
  /\ SignalsHN(an_args.source_col_name)
  /\ an_result.confidence_score = Score(6, 10)

\* every working sample is exactly 0, 0.0 or 00
AllZeroSample ==
  /\ SampleNotEmpty
  /\ \A i \in 1..Len(WorkingSample) :
       WorkingSample[i] \in {<<"0">>, <<"0", ".", "0">>, <<"0", "0">>}

\* the number of working samples that read as a float-rendered integer; among
\* the three zero texts that is 0.0
FloatRendered == Matches(WorkingSample, LAMBDA s : s = <<"0", ".", "0">>)

\* the source name contains count, flag or status
CounterName ==
  \/ Contains(NameText(an_args.source_col_name), <<"c", "o", "u", "n", "t">>)
  \/ Contains(NameText(an_args.source_col_name), <<"f", "l", "a", "g">>)
  \/ Contains(NameText(an_args.source_col_name), <<"s", "t", "a", "t", "u", "s">>)

\* C28: when every working sample is exactly 0, 0.0 or 00 and no more than
\* 70% of them are float-rendered integers, a source name without count, flag
\* and status gives should_ignore true, with the all-zero reason when the name
\* signals no domain identifier, and a source name with one of the three
\* keywords gives should_ignore false.
C28_AllZeroIgnored ==
  (an_pc = "done" /\ AllZeroSample /\ 10 * FloatRendered <= 7 * Len(WorkingSample)) =>
    /\ ~CounterName =>
         /\ an_result.should_ignore = TRUE
         /\ PlainSource => an_result.reason = <<Clause("All values are zero", 0, 0)>>
    /\ CounterName => an_result.should_ignore = FALSE

\* the texts 00 and 0.0 under a plain source name
C28_Witness ==
  /\ an_pc = "done"
  /\ WorkingSample = <<<<"0", "0">>, <<"0", ".", "0">>>>
  /\ PlainSource /\ ~CounterName
  /\ an_result.should_ignore = TRUE

\* C30: in every result of analyze_column_with_sample, should_ignore true
\* comes with an empty transformers list, for any sample and any column names.
C30_IgnoredHasNoTransformers ==
  (an_pc = "done" /\ an_result.should_ignore = TRUE) => an_result.transformers = <<>>

\* a column ignored for its zeros, two of three float-rendered: under the
\* 70% that would recommend FLOAT_TO_INT
C30_Witness ==
  /\ an_pc = "done"
  /\ AllZeroSample /\ Len(WorkingSample) = 3 /\ FloatRendered = 2
  /\ an_result.should_ignore = TRUE
  /\ an_result.transformers = <<>>

-----------------------------------------------------------------------------
(* Column name matching: claim C25 *)

\* a column name as it is compared: lower-cased, without outer blanks
Compared(name) == Strip(Lower(name.s))

\* the source name is the key of the entry, one of its synonyms, or holds the
\* key as one of its parts between underscores
SourceOfGroup(name, group) ==
  \/ Compared(name) = group.key
  \/ \E i \in 1..Len(group.possible_targets) : group.possible_targets[i] = Compared(name)
  \/ \E i \in 1..Len(Split(Compared(name), "_")) : Split(Compared(name), "_")[i] = group.key

\* the target name is the key of the entry or one of its synonyms
TargetOfGroup(name, group) ==
  \/ Compared(name) = group.key
  \/ \E i \in 1..Len(group.possible_targets) : group.possible_targets[i] = Compared(name)

\* the entries that hold the source column and one of the offered targets
SharedGroups(src_col) ==
  {k \in 1..Len(HisDictionary) :
     /\ SourceOfGroup(src_col, HisDictionary[k])
     /\ \E j \in 1..Len(sm_args.target_cols) :
          TargetOfGroup(sm_args.target_cols[j], HisDictionary[k])}

\* C25: for every source column of a call of suggest_mapping, the dictionary
\* step reports a target of a shared entry whenever the source name is a key,
\* a synonym or holds the key as a part and an offered target is the key or a
\* synonym of the same entry, and reports no match when the source and the
\* targets share no entry.
C25_DictionaryMatchByGroup ==
  (sm_pc = "done" /\ sm_args.source_cols # <<>> /\ sm_args.target_cols # <<>>) =>
    \A c \in Range(sm_args.source_cols) :
      /\ SharedGroups(c) # {} =>
           \E k \in SharedGroups(c) :
             sm_found[c] # None /\ TargetOfGroup(sm_found[c], HisDictionary[k])
      /\ SharedGroups(c) = {} => sm_found[c] = None

-----------------------------------------------------------------------------
(* Transformers: claims C26 and C29 *)

\* the layouts, by their place in the fixed order, that parse the text of the
\* input as a valid calendar date
ParsingLayouts(v) ==
  {i \in 1..Len(DateLayouts) : Strptime(Strip(PyStr(v)), DateLayouts[i]).ok}

\* the date the first parsing layout reads, as YYYY-MM-DD
FirstLayoutDate(v) ==
  LET first == CHOOSE i \in ParsingLayouts(v) : \A j \in ParsingLayouts(v) : i <= j
  IN StrV(Strftime(Strptime(Strip(PyStr(v)), DateLayouts[first])))

\* C26: ENG_DATE_TO_ISO gives the date read by the first layout, in the order
\* MM/DD/YYYY, MM-DD-YYYY, DD/MM/YYYY, DD-MM-YYYY, YYYY/MM/DD, that parses the
\* input as a valid calendar date (so the day-first reading is used only when
\* the month-first reading is invalid), and returns an input that no layout
\* parses identical to the input.
C26_EngDateFirstLayoutOrSame ==
  (tv_pc = "done" /\ tv_transformers = <<"ENG_DATE_TO_ISO">> /\ ~BlankInput(tv_value)) =>
    /\ ParsingLayouts(tv_value) # {} => tv_result = FirstLayoutDate(tv_value)
    /\ ParsingLayouts(tv_value) = {} => tv_result = tv_value

\* the value is null after step i of the call, and was not before it
ProducedNull(i) ==
  tv_log[i].before # None /\ tv_log[i].after = None

\* C29: once a step of a pipeline has produced null, every later step of the
\* same transform_value call leaves the value null, so the call returns null.
C29_NullStaysNull ==
  tv_pc = "done" =>
    \A i \in 1..Len(tv_log) :
      ProducedNull(i) =>
        /\ \A j \in (i + 1)..Len(tv_log) : tv_log[j].after = None
        /\ tv_result = None

====
